---- MODULE Spec2Model ----
(***************************************************************************)
(* Steady-state flow utility: the grid solver (app/utils/simulation.ts)    *)
(* and the interactive session hook (app/hooks/use-simulation.ts).         *)
(*                                                                         *)
(* Numbers.  The program computes on IEEE doubles.  Here every real        *)
(* quantity (velocity, pressure, normalized coordinate, weight, config     *)
(* parameter) is a fixed-point integer counting units of 1/SCALE, and a    *)
(* product of two such quantities is rounded down to the next unit (Mul).  *)
(* Grid indices, dimensions and step counters are plain integers.          *)
(*                                                                         *)
(* Nullable values (T | null) are sequences of length at most one:         *)
(* NULL is the empty sequence and Some(x) the one-element sequence.        *)
(***************************************************************************)
EXTENDS Integers, Sequences, FiniteSets, TLC

SCALE == 10000

NULL == <<>>

Some(x) == <<x>>

\* Fixed-point product floor(a * b / SCALE), split so that no intermediate
\* product leaves the 32-bit range for |b| below 21 * SCALE.
Mul(a, b) == (a \div SCALE) * b + ((a % SCALE) * b) \div SCALE

\* Math.floor of a fixed-point quantity, as an integer.
Floor(a) == a \div SCALE

Abs(a) == IF a < 0 THEN -a ELSE a

Max(a, b) == IF a >= b THEN a ELSE b

Min(a, b) == IF a <= b THEN a ELSE b

(***************************************************************************)
(* Grid construction and copy                                              *)
(***************************************************************************)

\* The error thrown by createGridFromMask.
EmptyMaskError == [error |-> "Obstacle mask cannot be empty"]

\* The RangeError thrown by Array(n) for a negative n.
InvalidArrayLength == [error |-> "Invalid array length"]

IsError(result) == "error" \in DOMAIN result

createEmptyArray2D(width, height) ==
    [y \in 0 .. height - 1 |-> [x \in 0 .. width - 1 |-> 0]]

\* Array(height) throws for a negative height, and the map callback's
\* Array(width) throws for a negative width once there is a row to build.
createSimulationGrid(width, height) ==
    IF height < 0 \/ (height > 0 /\ width < 0) THEN InvalidArrayLength
    ELSE
    [ width      |-> width,
      height     |-> height,
      pressure   |-> [y \in 0 .. height - 1 |-> [x \in 0 .. width - 1 |-> 0]],
      u          |-> [y \in 0 .. height - 1 |-> [x \in 0 .. width - 1 |-> 0]],
      v          |-> [y \in 0 .. height - 1 |-> [x \in 0 .. width - 1 |-> 0]],
      isObstacle |-> [y \in 0 .. height - 1 |-> [x \in 0 .. width - 1 |-> FALSE]] ]

\* Mutant: only the number of rows is tested.
createGridFromMask_RowsOnly(obstacleMask) ==
    IF Len(obstacleMask) = 0
    THEN EmptyMaskError
    ELSE LET height == Len(obstacleMask)
             width  == Len(obstacleMask[1])
             grid   == createSimulationGrid(width, height)
         IN  [grid EXCEPT !.isObstacle =
                 [y \in 0 .. height - 1 |->
                     [x \in 0 .. width - 1 |-> obstacleMask[y + 1][x + 1]]]]

\* A mask is a sequence of rows, each a sequence of booleans (1-based as
\* TLA+ sequences are; the grid arrays are 0-based like the source's).
createGridFromMask(obstacleMask) ==
    IF Len(obstacleMask) = 0 \/ Len(obstacleMask[1]) = 0
    THEN EmptyMaskError
    ELSE LET height == Len(obstacleMask)
             width  == Len(obstacleMask[1])
             grid   == createSimulationGrid(width, height)
         IN  [grid EXCEPT !.isObstacle =
                 [y \in 0 .. height - 1 |->
                     [x \in 0 .. width - 1 |-> obstacleMask[y + 1][x + 1]]]]

copySimulationGrid(grid) ==
    LET newGrid == createSimulationGrid(grid.width, grid.height)
    IN  [newGrid EXCEPT
            !.pressure   = [y \in 0 .. grid.height - 1 |->
                               [x \in 0 .. grid.width - 1 |-> grid.pressure[y][x]]],
            !.u          = [y \in 0 .. grid.height - 1 |->
                               [x \in 0 .. grid.width - 1 |-> grid.u[y][x]]],
            !.v          = [y \in 0 .. grid.height - 1 |->
                               [x \in 0 .. grid.width - 1 |-> grid.v[y][x]]],
            !.isObstacle = [y \in 0 .. grid.height - 1 |->
                               [x \in 0 .. grid.width - 1 |-> grid.isObstacle[y][x]]]]

\* Mutant: the velocity components are exchanged.
convertForceVectorsToTargetVelocities_Swapped(forces, weight) ==
    [i \in 1 .. Len(forces) |->
        [x |-> forces[i].x, y |-> forces[i].y,
         u |-> forces[i].fy, v |-> forces[i].fx, weight |-> weight]]

convertForceVectorsToTargetVelocities(forces, weight) ==
    [i \in 1 .. Len(forces) |->
        [x |-> forces[i].x, y |-> forces[i].y,
         u |-> forces[i].fx, v |-> forces[i].fy, weight |-> weight]]

(***************************************************************************)
(* Field operators                                                         *)
(***************************************************************************)

DEFAULT_SIMULATION_CONFIG ==
    [ relaxationFactor |-> (2 * SCALE) \div 10,
      pressureImpact   |-> SCALE \div 10,
      timeStep         |-> SCALE \div 10,
      viscosity        |-> SCALE \div 100,
      iterations       |-> 20 ]

\* The loops "for y = 1 .. height-2, for x = 1 .. width-2, skip obstacles".
InteriorFluid(grid, x, y) ==
    /\ 1 <= x /\ x < grid.width - 1
    /\ 1 <= y /\ y < grid.height - 1
    /\ ~grid.isObstacle[y][x]

bilinearInterpolate(field, x, y, width, height) ==
    LET clampedX == Max(SCALE \div 2, Min((width - 1) * SCALE - SCALE \div 2, x))
        clampedY == Max(SCALE \div 2, Min((height - 1) * SCALE - SCALE \div 2, y))
        x0 == Floor(clampedX)
        y0 == Floor(clampedY)
        x1 == x0 + 1
        y1 == y0 + 1
        sx == clampedX - x0 * SCALE
        sy == clampedY - y0 * SCALE
        val0 == Mul(field[y0][x0], SCALE - sx) + Mul(field[y0][x1], sx)
        val1 == Mul(field[y1][x0], SCALE - sx) + Mul(field[y1][x1], sx)
    IN  Mul(val0, SCALE - sy) + Mul(val1, sy)

\* Mutant: the loop ends at the first force that has to be skipped.
RECURSIVE applyForces_StopAtSkip(_, _)
applyForces_StopAtSkip(grid, forces) ==
    IF forces = <<>> THEN grid
    ELSE LET force == Head(forces)
             gx == Floor(force.x * grid.width)
             gy == Floor(force.y * grid.height)
             skip == gx < 0 \/ gx >= grid.width \/ gy < 0 \/ gy >= grid.height
                        \/ grid.isObstacle[gy][gx]
         IN  IF skip THEN grid
             ELSE applyForces_StopAtSkip(
                     [grid EXCEPT !.u[gy][gx] = @ + force.fx * grid.width,
                                  !.v[gy][gx] = @ + force.fy * grid.height],
                     Tail(forces))

\* Mutant: the force components are added without scaling to grid units.
RECURSIVE applyForces_Unscaled(_, _)
applyForces_Unscaled(grid, forces) ==
    IF forces = <<>> THEN grid
    ELSE LET force == Head(forces)
             gx == Floor(force.x * grid.width)
             gy == Floor(force.y * grid.height)
             skip == gx < 0 \/ gx >= grid.width \/ gy < 0 \/ gy >= grid.height
                        \/ grid.isObstacle[gy][gx]
             next == IF skip THEN grid
                     ELSE [grid EXCEPT !.u[gy][gx] = @ + force.fx,
                                       !.v[gy][gx] = @ + force.fy]
         IN  applyForces_Unscaled(next, Tail(forces))

RECURSIVE applyForces(_, _)
applyForces(grid, forces) ==
    IF forces = <<>> THEN grid
    ELSE LET force == Head(forces)
             gx == Floor(force.x * grid.width)
             gy == Floor(force.y * grid.height)
             skip == gx < 0 \/ gx >= grid.width \/ gy < 0 \/ gy >= grid.height
                        \/ grid.isObstacle[gy][gx]
             scaledFx == force.fx * grid.width
             scaledFy == force.fy * grid.height
             next == IF skip THEN grid
                     ELSE [grid EXCEPT !.u[gy][gx] = @ + scaledFx,
                                       !.v[gy][gx] = @ + scaledFy]
         IN  applyForces(next, Tail(forces))

\* Mutant: the pressure of every fluid cell also relaxes towards an ambient
\* level of one unit of pressure.
updatePressure_Ambient(grid, relaxationFactor) ==
    [grid EXCEPT !.pressure =
        [y \in 0 .. grid.height - 1 |-> [x \in 0 .. grid.width - 1 |->
            IF InteriorFluid(grid, x, y)
            THEN LET divergence == grid.u[y][x + 1] - grid.u[y][x - 1]
                                   + grid.v[y + 1][x] - grid.v[y - 1][x]
                 IN  grid.pressure[y][x] - Mul(relaxationFactor, divergence)
                     + Mul(relaxationFactor, SCALE - grid.pressure[y][x])
            ELSE grid.pressure[y][x]]]]

updatePressure(grid, relaxationFactor) ==
    [grid EXCEPT !.pressure =
        [y \in 0 .. grid.height - 1 |-> [x \in 0 .. grid.width - 1 |->
            IF InteriorFluid(grid, x, y)
            THEN LET divergence == grid.u[y][x + 1] - grid.u[y][x - 1]
                                   + grid.v[y + 1][x] - grid.v[y - 1][x]
                 IN  grid.pressure[y][x] - Mul(relaxationFactor, divergence)
            ELSE grid.pressure[y][x]]]]

updateVelocity(grid, pressureImpact) ==
    LET dpdx(x, y) == grid.pressure[y][x + 1] - grid.pressure[y][x - 1]
        dpdy(x, y) == grid.pressure[y + 1][x] - grid.pressure[y - 1][x]
    IN  [grid EXCEPT
            !.u = [y \in 0 .. grid.height - 1 |-> [x \in 0 .. grid.width - 1 |->
                      IF InteriorFluid(grid, x, y)
                      THEN grid.u[y][x] - Mul(pressureImpact, dpdx(x, y))
                      ELSE grid.u[y][x]]],
            !.v = [y \in 0 .. grid.height - 1 |-> [x \in 0 .. grid.width - 1 |->
                      IF InteriorFluid(grid, x, y)
                      THEN grid.v[y][x] - Mul(pressureImpact, dpdy(x, y))
                      ELSE grid.v[y][x]]]]

\* The interior cells <<x, y>> in the order of the loops
\* "for y = 1 .. height-2, for x = 1 .. width-2".
LoopOrder(grid) ==
    IF grid.width < 3 \/ grid.height < 3 THEN <<>>
    ELSE [i \in 1 .. (grid.width - 2) * (grid.height - 2) |->
            << 1 + ((i - 1) % (grid.width - 2)), 1 + ((i - 1) \div (grid.width - 2)) >>]

\* The first pair of loops of applyAdvection, visiting the given cells in the
\* given order: each non-obstacle cell is backtraced and interpolated in the
\* u, v of the grid and the result is stored in the scratch arrays.
RECURSIVE AdvectLoop(_, _, _, _)
AdvectLoop(grid, timeStep, cells, new) ==
    IF cells = <<>> THEN new
    ELSE LET x == Head(cells)[1]
             y == Head(cells)[2]
             srcX == x * SCALE - Mul(grid.u[y][x], timeStep)
             srcY == y * SCALE - Mul(grid.v[y][x], timeStep)
         IN  IF grid.isObstacle[y][x] THEN AdvectLoop(grid, timeStep, Tail(cells), new)
             ELSE AdvectLoop(grid, timeStep, Tail(cells),
                     [new EXCEPT
                        !.uNew[y][x] = bilinearInterpolate(grid.u, srcX, srcY,
                                                           grid.width, grid.height),
                        !.vNew[y][x] = bilinearInterpolate(grid.v, srcX, srcY,
                                                           grid.width, grid.height)])

\* applyAdvection with its first pair of loops visiting the given cells in the
\* given order; the second pair of loops commits the scratch arrays.
AdvectInOrder(grid, timeStep, cells) ==
    LET new == AdvectLoop(grid, timeStep, cells,
                          [uNew |-> createEmptyArray2D(grid.width, grid.height),
                           vNew |-> createEmptyArray2D(grid.width, grid.height)])
    IN  [grid EXCEPT
            !.u = [y \in 0 .. grid.height - 1 |-> [x \in 0 .. grid.width - 1 |->
                      IF InteriorFluid(grid, x, y) THEN new.uNew[y][x] ELSE grid.u[y][x]]],
            !.v = [y \in 0 .. grid.height - 1 |-> [x \in 0 .. grid.width - 1 |->
                      IF InteriorFluid(grid, x, y) THEN new.vNew[y][x] ELSE grid.v[y][x]]]]

\* Mutant helper: one pair of loops that writes each cell's result into u, v
\* at once, so that later cells read it.
RECURSIVE AdvectLoop_InPlace(_, _, _)
AdvectLoop_InPlace(grid, timeStep, cells) ==
    IF cells = <<>> THEN grid
    ELSE LET x == Head(cells)[1]
             y == Head(cells)[2]
             srcX == x * SCALE - Mul(grid.u[y][x], timeStep)
             srcY == y * SCALE - Mul(grid.v[y][x], timeStep)
         IN  IF grid.isObstacle[y][x] THEN AdvectLoop_InPlace(grid, timeStep, Tail(cells))
             ELSE AdvectLoop_InPlace(
                     [grid EXCEPT
                        !.u[y][x] = bilinearInterpolate(grid.u, srcX, srcY,
                                                        grid.width, grid.height),
                        !.v[y][x] = bilinearInterpolate(grid.v, srcX, srcY,
                                                        grid.width, grid.height)],
                     timeStep, Tail(cells))

\* Mutant: advection without scratch arrays.
applyAdvection_InPlace(grid, timeStep) ==
    AdvectLoop_InPlace(grid, timeStep, LoopOrder(grid))

\* Two passes: uNew/vNew are computed from the unmodified u, v and only then
\* committed to the interior non-obstacle cells.
applyAdvection(grid, timeStep) ==
    LET srcX(x, y) == x * SCALE - Mul(grid.u[y][x], timeStep)
        srcY(x, y) == y * SCALE - Mul(grid.v[y][x], timeStep)
        uNew == [y \in 0 .. grid.height - 1 |-> [x \in 0 .. grid.width - 1 |->
                    IF InteriorFluid(grid, x, y)
                    THEN bilinearInterpolate(grid.u, srcX(x, y), srcY(x, y),
                                             grid.width, grid.height)
                    ELSE 0]]
        vNew == [y \in 0 .. grid.height - 1 |-> [x \in 0 .. grid.width - 1 |->
                    IF InteriorFluid(grid, x, y)
                    THEN bilinearInterpolate(grid.v, srcX(x, y), srcY(x, y),
                                             grid.width, grid.height)
                    ELSE 0]]
    IN  [grid EXCEPT
            !.u = [y \in 0 .. grid.height - 1 |-> [x \in 0 .. grid.width - 1 |->
                      IF InteriorFluid(grid, x, y) THEN uNew[y][x] ELSE grid.u[y][x]]],
            !.v = [y \in 0 .. grid.height - 1 |-> [x \in 0 .. grid.width - 1 |->
                      IF InteriorFluid(grid, x, y) THEN vNew[y][x] ELSE grid.v[y][x]]]]

\* viscosity < 0.000001, on a fixed-point viscosity
ViscosityNegligible(viscosity) == viscosity * 1000000 < SCALE

applyViscosity(grid, viscosity) ==
    IF ViscosityNegligible(viscosity) THEN grid
    ELSE
    LET laplacianU(x, y) == grid.u[y][x + 1] + grid.u[y][x - 1] + grid.u[y + 1][x]
                            + grid.u[y - 1][x] - 4 * grid.u[y][x]
        laplacianV(x, y) == grid.v[y][x + 1] + grid.v[y][x - 1] + grid.v[y + 1][x]
                            + grid.v[y - 1][x] - 4 * grid.v[y][x]
        uNew == [y \in 0 .. grid.height - 1 |-> [x \in 0 .. grid.width - 1 |->
                    IF InteriorFluid(grid, x, y)
                    THEN grid.u[y][x] + Mul(viscosity, laplacianU(x, y))
                    ELSE 0]]
        vNew == [y \in 0 .. grid.height - 1 |-> [x \in 0 .. grid.width - 1 |->
                    IF InteriorFluid(grid, x, y)
                    THEN grid.v[y][x] + Mul(viscosity, laplacianV(x, y))
                    ELSE 0]]
    IN  [grid EXCEPT
            !.u = [y \in 0 .. grid.height - 1 |-> [x \in 0 .. grid.width - 1 |->
                      IF InteriorFluid(grid, x, y) THEN uNew[y][x] ELSE grid.u[y][x]]],
            !.v = [y \in 0 .. grid.height - 1 |-> [x \in 0 .. grid.width - 1 |->
                      IF InteriorFluid(grid, x, y) THEN vNew[y][x] ELSE grid.v[y][x]]]]

\* Mutant: only obstacle cells are zeroed, the outer ring is left alone.
applyBoundaryConditions_ObstaclesOnly(grid) ==
    [grid EXCEPT
        !.u = [y \in 0 .. grid.height - 1 |-> [x \in 0 .. grid.width - 1 |->
                  IF grid.isObstacle[y][x] THEN 0 ELSE grid.u[y][x]]],
        !.v = [y \in 0 .. grid.height - 1 |-> [x \in 0 .. grid.width - 1 |->
                  IF grid.isObstacle[y][x] THEN 0 ELSE grid.v[y][x]]]]

applyBoundaryConditions(grid) ==
    LET zeroed(x, y) == grid.isObstacle[y][x] \/ x = 0 \/ x = grid.width - 1
                           \/ y = 0 \/ y = grid.height - 1
    IN  [grid EXCEPT
            !.u = [y \in 0 .. grid.height - 1 |-> [x \in 0 .. grid.width - 1 |->
                      IF zeroed(x, y) THEN 0 ELSE grid.u[y][x]]],
            !.v = [y \in 0 .. grid.height - 1 |-> [x \in 0 .. grid.width - 1 |->
                      IF zeroed(x, y) THEN 0 ELSE grid.v[y][x]]]]

\* Mutant: the target replaces the velocity whatever its weight.
RECURSIVE applyTargetVelocities_Overwrite(_, _)
applyTargetVelocities_Overwrite(grid, targetVelocities) ==
    IF targetVelocities = <<>> THEN grid
    ELSE LET target == Head(targetVelocities)
             gx == Floor(target.x * grid.width)
             gy == Floor(target.y * grid.height)
             skip == gx < 1 \/ gx >= grid.width - 1 \/ gy < 1 \/ gy >= grid.height - 1
                        \/ grid.isObstacle[gy][gx]
             next == IF skip THEN grid
                     ELSE [grid EXCEPT !.u[gy][gx] = target.u * grid.width,
                                       !.v[gy][gx] = target.v * grid.height]
         IN  applyTargetVelocities_Overwrite(next, Tail(targetVelocities))

RECURSIVE applyTargetVelocities(_, _)
applyTargetVelocities(grid, targetVelocities) ==
    IF targetVelocities = <<>> THEN grid
    ELSE LET target == Head(targetVelocities)
             gx == Floor(target.x * grid.width)
             gy == Floor(target.y * grid.height)
             skip == gx < 1 \/ gx >= grid.width - 1 \/ gy < 1 \/ gy >= grid.height - 1
                        \/ grid.isObstacle[gy][gx]
             scaledU == target.u * grid.width
             scaledV == target.v * grid.height
             next == IF skip THEN grid
                     ELSE [grid EXCEPT
                            !.u[gy][gx] = Mul(SCALE - target.weight, @)
                                          + Mul(target.weight, scaledU),
                            !.v[gy][gx] = Mul(SCALE - target.weight, @)
                                          + Mul(target.weight, scaledV)]
         IN  applyTargetVelocities(next, Tail(targetVelocities))

\* Mutant: the targets are applied before the pressure gradient acts on the
\* velocity.
runSimulationStep_TargetsEarly(grid, forces, targetVelocities, config) ==
    LET newGrid == copySimulationGrid(grid)
        g1 == applyForces(newGrid, forces)
        g2 == applyAdvection(g1, config.timeStep)
        g3 == applyViscosity(g2, config.viscosity)
        g4 == updatePressure(g3, config.relaxationFactor)
        g5 == applyTargetVelocities(g4, targetVelocities)
        g6 == updateVelocity(g5, config.pressureImpact)
    IN  applyBoundaryConditions(g6)

runSimulationStep(grid, forces, targetVelocities, config) ==
    LET newGrid == copySimulationGrid(grid)
        g1 == applyForces(newGrid, forces)
        g2 == applyAdvection(g1, config.timeStep)
        g3 == applyViscosity(g2, config.viscosity)
        g4 == updatePressure(g3, config.relaxationFactor)
        g5 == updateVelocity(g4, config.pressureImpact)
        g6 == applyTargetVelocities(g5, targetVelocities)
    IN  applyBoundaryConditions(g6)

(***************************************************************************)
(* The useSimulation hook                                                  *)
(*                                                                         *)
(* Each run of the effect with a mask creates one AbortController and one  *)
(* call of the async function runSimulation: a session, numbered in order  *)
(* of creation.  JavaScript runs every callback to completion, so a        *)
(* session is observable only while it awaits its setTimeout(0) promise    *)
(* (pc = "waiting") or after runSimulation returned (pc = "done"); the     *)
(* code between two awaits is one atomic action (Wake).                    *)
(***************************************************************************)

MaxSessions == 3

MaxOvertake == 2

MAX_STEPS == 5000

CONVERGENCE_THRESHOLD == SCALE \div 10000

Sessions == 1 .. MaxSessions

\* The props the environment supplies.
MaskOpen ==
    << <<FALSE, FALSE, FALSE>>, <<FALSE, FALSE, FALSE>>, <<FALSE, FALSE, FALSE>> >>

MaskBlocked ==
    << <<FALSE, FALSE, FALSE>>, <<FALSE, TRUE, FALSE>>, <<FALSE, FALSE, FALSE>> >>

CenterForce ==
    [x |-> SCALE \div 2, y |-> SCALE \div 2, fx |-> SCALE \div 2, fy |-> 0]

\* A vector drawn at the centre that points mostly along y.
SkewForce ==
    [x |-> SCALE \div 2, y |-> SCALE \div 2, fx |-> SCALE \div 4, fy |-> SCALE \div 2]

\* The (mask, forces, weight) triples the environment chooses from: a soft
\* target (the field settles after some steps) and an obstacle mask with no
\* force at all (nothing ever moves).
PropChoices ==
    { [mask |-> MaskOpen,    forces |-> <<SkewForce>>,   weight |-> SCALE \div 2],
      [mask |-> MaskBlocked, forces |-> <<>>,            weight |-> SCALE \div 2] }

\* A weight far outside [0, 1]: the mixing overshoots and the field never
\* settles, so the session runs into the step ceiling.
PathologicalProps ==
    [mask |-> MaskOpen, forces |-> <<CenterForce>>, weight |-> 3 * SCALE]

\* The grid held by a session that is not running.
NoGrid == createSimulationGrid(0, 0)

NoEmit == [session |-> 0, step |-> 0]

\* The props in the closure of a session that is not running.
NoProps == [forceVectors |-> <<>>, targetWeight |-> 0]

VARIABLES
    obstacleMask,           \* prop: NULL or Some(mask)
    velocityField,          \* useState: NULL or Some([u, v])
    isSimulating,           \* useState
    convergenceSteps,       \* useState: NULL or Some(n)
    currentStep,            \* useState
    currentDelta,           \* useState: NULL or Some(maxDiff)
    abortControllerRef,     \* useRef: 0 (null) or the session whose controller it holds
    effectController,       \* controller captured by the pending effect cleanup, 0 if none
    started,                \* number of sessions created so far
    pc,                     \* per session: "idle", "waiting", "done"
    aborted,                \* per session: controller.signal.aborted
    steps,                  \* per session: local steps
    currentGrid,            \* per session: local currentGrid
    previousVelocityField,  \* per session: local previousVelocityField
    targetVelocities,       \* per session: local targetVelocities
    sessionProps,           \* per session: forceVectors and targetWeight in the closure
    outcome,                \* per session: how runSimulation left its loop
    timerQueue,             \* sessions with a pending setTimeout(0), oldest first
    overtakes,              \* timers fired ahead of an older pending one
    stepsAfterAbort,        \* history: runSimulationStep calls made with the signal set
    lastEmit,               \* history: session and step of the last setVelocityField
    harnessGrid,            \* solver harness: the current grid
    harnessInput,           \* solver harness: the argument of the last step
    harnessSteps,           \* solver harness: steps applied
    harnessCall,            \* solver harness: the other arguments of the last step
    heap,                   \* library harness: the arrays allocated so far
    heapGrids,              \* library harness: the grid objects handed out so far
    heapCall,               \* library harness: the last call, its arguments and result
    heapWrites,             \* library harness: cell writes made by the caller
    pureCall,               \* function harness: the function called and its arguments
    pureResult              \* function harness: what the call returned

hookVars ==
    << obstacleMask, velocityField, isSimulating,
       convergenceSteps, currentStep, currentDelta, abortControllerRef,
       effectController, started, pc, aborted, steps, currentGrid,
       previousVelocityField, targetVelocities, sessionProps, outcome, timerQueue,
       overtakes, stepsAfterAbort, lastEmit >>

stepVars == << harnessGrid, harnessInput, harnessSteps, harnessCall >>

heapVars == << heap, heapGrids, heapCall, heapWrites >>

pureVars == << pureCall, pureResult >>

harnessVars == << stepVars, heapVars, pureVars >>

vars == << hookVars, harnessVars >>

\* useState/useRef initial values and no session.
HookInit ==
    /\ obstacleMask = NULL
    /\ velocityField = NULL
    /\ isSimulating = FALSE
    /\ convergenceSteps = NULL
    /\ currentStep = 0
    /\ currentDelta = NULL
    /\ abortControllerRef = 0
    /\ effectController = 0
    /\ started = 0
    /\ pc = [s \in Sessions |-> "idle"]
    /\ aborted = [s \in Sessions |-> FALSE]
    /\ steps = [s \in Sessions |-> 0]
    /\ currentGrid = [s \in Sessions |-> NoGrid]
    /\ previousVelocityField = [s \in Sessions |-> NULL]
    /\ targetVelocities = [s \in Sessions |-> <<>>]
    /\ sessionProps = [s \in Sessions |-> NoProps]
    /\ outcome = [s \in Sessions |-> "None"]
    /\ timerQueue = <<>>
    /\ overtakes = 0
    /\ stepsAfterAbort = [s \in Sessions |-> 0]
    /\ lastEmit = NoEmit

NoCall == [forces |-> <<>>, targets |-> <<>>, config |-> DEFAULT_SIMULATION_CONFIG]

StepIdle ==
    /\ harnessGrid = NoGrid
    /\ harnessInput = NoGrid
    /\ harnessSteps = 0
    /\ harnessCall = NoCall

EmptyHeap == [rows |-> <<>>, arrays |-> <<>>]

NoHeapCall == [op |-> "none"]

HeapIdle ==
    /\ heap = EmptyHeap
    /\ heapGrids = <<>>
    /\ heapCall = NoHeapCall
    /\ heapWrites = 0

NoResult == [done |-> FALSE]

PureIdle ==
    /\ pureCall = [op |-> "none"]
    /\ pureResult = NoResult

HarnessIdle == StepIdle /\ HeapIdle /\ PureIdle

Init == HookInit /\ HarnessIdle

\* controller.abort() on the controller of session c (no call when c = 0).
Abort(flags, c) == IF c = 0 THEN flags ELSE [flags EXCEPT ![c] = TRUE]

\* The cleanup returned by the previous effect run, if any.
EffectCleanup(flags, controller) == Abort(flags, controller)

\* "Abort any previous simulation first": abortControllerRef.current.abort()
AbortPrevious(flags, ref) == Abort(flags, ref)

\* Mutant: a new session starts without cancelling anything.
SupersedePrevious_None(flags, cleanupController, ref) == flags

\* What a dependency change with a mask does to the earlier controllers: the
\* cleanup of the previous effect run, then the abort through the ref.
SupersedePrevious(flags, cleanupController, ref) ==
    AbortPrevious(EffectCleanup(flags, cleanupController), ref)

\* A dependency changed and the mask is set: cleanup, then the effect body up
\* to and including runSimulation()'s synchronous part (to its first await).
DepsChangeStart(mask, forces, weight) ==
    /\ started < MaxSessions
    /\ LET controller == started + 1
           grid == createGridFromMask(mask)
       IN  /\ obstacleMask' = Some(mask)
           /\ aborted' = SupersedePrevious(aborted, effectController, abortControllerRef)
           /\ abortControllerRef' = controller
           /\ effectController' = controller
           /\ started' = controller
           /\ isSimulating' = TRUE
           /\ convergenceSteps' = NULL
           /\ currentStep' = 0
           /\ currentDelta' = NULL
           /\ currentGrid' = [currentGrid EXCEPT ![controller] = grid]
           /\ previousVelocityField' = [previousVelocityField EXCEPT ![controller] = NULL]
           /\ steps' = [steps EXCEPT ![controller] = 0]
           /\ sessionProps' = [sessionProps EXCEPT ![controller] =
                  [forceVectors |-> forces, targetWeight |-> weight]]
           /\ targetVelocities' = [targetVelocities EXCEPT ![controller] =
                  convertForceVectorsToTargetVelocities(forces, weight)]
           /\ pc' = [pc EXCEPT ![controller] = "waiting"]
           /\ timerQueue' = Append(timerQueue, controller)
    /\ UNCHANGED << velocityField, outcome, overtakes, stepsAfterAbort, lastEmit >>
    /\ UNCHANGED harnessVars

\* Mutant: the effect has no mask guard and gets as far as
\* setIsSimulating(true) before it fails on the null mask.
DepsChangeNoMask_Unguarded ==
    /\ obstacleMask' = NULL
    /\ aborted' = SupersedePrevious(aborted, effectController, abortControllerRef)
    /\ effectController' = 0
    /\ isSimulating' = TRUE
    /\ UNCHANGED << velocityField, convergenceSteps, currentStep,
                    currentDelta, abortControllerRef, started, pc, steps,
                    currentGrid, previousVelocityField, targetVelocities, sessionProps,
                    outcome, timerQueue, overtakes, stepsAfterAbort, lastEmit >>
    /\ UNCHANGED harnessVars

\* A dependency changed while the mask is null: cleanup, then the effect
\* returns at once and registers no cleanup.
DepsChangeNoMask ==
    /\ obstacleMask' = NULL
    /\ aborted' = EffectCleanup(aborted, effectController)
    /\ effectController' = 0
    /\ UNCHANGED << velocityField, isSimulating, convergenceSteps, currentStep,
                    currentDelta, abortControllerRef, started, pc, steps,
                    currentGrid, previousVelocityField, targetVelocities, sessionProps,
                    outcome, timerQueue, overtakes, stepsAfterAbort, lastEmit >>
    /\ UNCHANGED harnessVars

\* The abortSimulation callback handed to the caller.
AbortSimulation ==
    /\ abortControllerRef # 0
    /\ aborted' = Abort(aborted, abortControllerRef)
    /\ UNCHANGED << obstacleMask, velocityField,
                    isSimulating, convergenceSteps, currentStep, currentDelta,
                    abortControllerRef, effectController, started, pc, steps,
                    currentGrid, previousVelocityField, targetVelocities, sessionProps,
                    outcome, timerQueue, overtakes, stepsAfterAbort, lastEmit >>
    /\ UNCHANGED harnessVars

\* Mutant: the loop allows one step more than the ceiling.
LoopCondition_OneMore(nSteps, hasReachedConvergence, isAborted) ==
    nSteps <= MAX_STEPS /\ ~hasReachedConvergence /\ ~isAborted

\* Mutant: the loop does not look at the abort signal.
LoopCondition_IgnoresAbort(nSteps, hasReachedConvergence, isAborted) ==
    nSteps < MAX_STEPS /\ ~hasReachedConvergence

\* The while condition of runSimulation.
LoopCondition(nSteps, hasReachedConvergence, isAborted) ==
    nSteps < MAX_STEPS /\ ~hasReachedConvergence /\ ~isAborted

\* let maxDiff = 0; then Math.max over |du| of all cells and |dv| of all cells.
RECURSIVE FoldMaxDiff(_, _, _, _, _)
FoldMaxDiff(cur, prev, width, i, acc) ==
    IF i < 0 THEN acc
    ELSE LET y == i \div width
             x == i % width
         IN  FoldMaxDiff(cur, prev, width, i - 1, Max(acc, Abs(cur[y][x] - prev[y][x])))

\* Mutant: only the u component is compared.
MaxDiff_UOnly(grid, previous) ==
    FoldMaxDiff(grid.u, previous.u, grid.width, grid.height * grid.width - 1, 0)

MaxDiff(grid, previous) ==
    LET n == grid.height * grid.width
        uMax == FoldMaxDiff(grid.u, previous.u, grid.width, n - 1, 0)
    IN  FoldMaxDiff(grid.v, previous.v, grid.width, n - 1, uMax)

\* Mutant: a step that changes nothing at all does not count as converged.
ConvergenceCheck_Positive(maxDiff) == 0 < maxDiff /\ maxDiff < CONVERGENCE_THRESHOLD

\* Mutant: a difference equal to the threshold counts as converged.
ConvergenceCheck_Inclusive(maxDiff) == maxDiff <= CONVERGENCE_THRESHOLD

\* hasReachedConvergence = maxDiff < CONVERGENCE_THRESHOLD
ConvergenceCheck(maxDiff) == maxDiff < CONVERGENCE_THRESHOLD

\* Mutant: progress is published without looking at the abort signal.
ProgressGuard_Always(isAborted) == TRUE

\* if (!controller.signal.aborted) around the per-step setVelocityField
ProgressGuard(isAborted) == ~isAborted

\* Mutant: the final report is made whether or not the session was aborted.
FinalGuard_Always(isAborted) == TRUE

\* if (!controller.signal.aborted) around the final report
FinalGuard(isAborted) == ~isAborted

\* Mutant: the final report never carries a step count.
FinalConvergenceSteps_Null(hasReachedConvergence, nSteps) == NULL

\* Mutant: the final report carries the step count whatever the outcome.
FinalConvergenceSteps_Always(hasReachedConvergence, nSteps) == Some(nSteps)

\* setConvergenceSteps(hasReachedConvergence ? steps : null)
FinalConvergenceSteps(hasReachedConvergence, nSteps) ==
    IF hasReachedConvergence THEN Some(nSteps) ELSE NULL

\* Mutant: the finally block never clears isSimulating.
FinallyGuard_Never(ref, controller) == FALSE

\* Mutant: the finally block clears isSimulating whichever session returns.
FinallyGuard_Always(ref, controller) == TRUE

\* finally: if (abortControllerRef.current === controller)
FinallyGuard(ref, controller) == ref = controller

\* How the loop was left, read off the conditions of the final report.
Outcome(hasReachedConvergence, isAborted) ==
    IF isAborted THEN "Aborted"
    ELSE IF hasReachedConvergence THEN "Converged"
    ELSE "StepLimitReached"

\* Mutant: the timer that fired stays pending.
RemoveAt_TimerStays(q, i) == q

\* The queue of pending timers without the one at position i, which fired.
RemoveAt(q, i) == SubSeq(q, 1, i - 1) \o SubSeq(q, i + 1, Len(q))

\* Mutant: the step is given the raw force list as well.
StepForces_Raw(forceVectors) == forceVectors

\* The forces argument of the session's step: an empty array, whatever the
\* forceVectors prop holds.
StepForces(forceVectors) == <<>>

\* The timer of session s fires: the rest of one loop iteration, the next
\* loop test and either the next setTimeout or the final report and finally.
Wake(s) ==
    /\ pc[s] = "waiting"
    /\ \E i \in 1 .. Len(timerQueue) :
        /\ timerQueue[i] = s
        /\ i = 1 \/ overtakes < MaxOvertake
        /\ overtakes' = IF i = 1 THEN 0 ELSE overtakes + 1
        /\ LET grid1 == runSimulationStep(currentGrid[s],
                                          StepForces(sessionProps[s].forceVectors),
                                          targetVelocities[s],
                                          DEFAULT_SIMULATION_CONFIG)
               steps1 == steps[s] + 1
               previous == previousVelocityField[s]
               compared == previous # NULL
               maxDiff == IF compared THEN MaxDiff(grid1, previous[1]) ELSE 0
               hasReachedConvergence == compared /\ ConvergenceCheck(maxDiff)
               field1 == [u |-> grid1.u, v |-> grid1.v]
               progress == ~hasReachedConvergence /\ ProgressGuard(aborted[s])
               continue == ~hasReachedConvergence
                              /\ LoopCondition(steps1, hasReachedConvergence, aborted[s])
               final == ~continue /\ FinalGuard(aborted[s])
           IN  /\ currentStep' = steps1
               /\ currentDelta' = IF compared THEN Some(maxDiff) ELSE currentDelta
               /\ velocityField' = IF progress \/ final THEN Some(field1)
                                   ELSE velocityField
               /\ lastEmit' = IF progress \/ final
                              THEN [session |-> s, step |-> steps1] ELSE lastEmit
               /\ convergenceSteps' =
                      IF final THEN FinalConvergenceSteps(hasReachedConvergence, steps1)
                      ELSE convergenceSteps
               /\ stepsAfterAbort' =
                      IF aborted[s] THEN [stepsAfterAbort EXCEPT ![s] = @ + 1]
                      ELSE stepsAfterAbort
               /\ IF continue
                  THEN /\ steps' = [steps EXCEPT ![s] = steps1]
                       /\ currentGrid' = [currentGrid EXCEPT ![s] = grid1]
                       /\ previousVelocityField' =
                              [previousVelocityField EXCEPT ![s] = Some(field1)]
                       /\ timerQueue' = Append(RemoveAt(timerQueue, i), s)
                       /\ UNCHANGED << pc, outcome, isSimulating, targetVelocities,
                                       sessionProps >>
                  ELSE \* runSimulation returns: its locals are released
                       /\ steps' = [steps EXCEPT ![s] = 0]
                       /\ currentGrid' = [currentGrid EXCEPT ![s] = NoGrid]
                       /\ previousVelocityField' =
                              [previousVelocityField EXCEPT ![s] = NULL]
                       /\ targetVelocities' = [targetVelocities EXCEPT ![s] = <<>>]
                       /\ sessionProps' = [sessionProps EXCEPT ![s] = NoProps]
                       /\ timerQueue' = RemoveAt(timerQueue, i)
                       /\ pc' = [pc EXCEPT ![s] = "done"]
                       /\ outcome' = [outcome EXCEPT ![s] =
                              Outcome(hasReachedConvergence, aborted[s])]
                       /\ isSimulating' =
                              IF FinallyGuard(abortControllerRef, s) THEN FALSE
                              ELSE isSimulating
    /\ UNCHANGED << obstacleMask, abortControllerRef,
                    effectController, started, aborted >>
    /\ UNCHANGED harnessVars

Next ==
    \/ \E p \in PropChoices : DepsChangeStart(p.mask, p.forces, p.weight)
    \/ DepsChangeNoMask
    \/ AbortSimulation
    \/ \E s \in Sessions : Wake(s)

Spec == Init /\ [][Next]_vars

\* The hook mounted with props that never change afterwards, the pathological
\* ones included: one session, which the caller may abort and whose mask may
\* be cleared at any moment.
StartOnce ==
    /\ started = 0
    /\ \E p \in PropChoices \cup {PathologicalProps} :
          DepsChangeStart(p.mask, p.forces, p.weight)

LimitNext ==
    \/ StartOnce
    \/ DepsChangeNoMask
    \/ AbortSimulation
    \/ \E s \in Sessions : Wake(s)

LimitSpec == Init /\ [][LimitNext]_vars

\* The scheduling part of Wake(s): the pending timer of session s fires and
\* the session either sets its next timer or returns.  Every Wake(s) step is
\* such a step and no other step of the hook is; it is enabled exactly when
\* Wake(s) is.
TimerFires(s) ==
    \E i \in 1 .. Len(timerQueue) :
        /\ timerQueue[i] = s
        /\ i = 1 \/ overtakes < MaxOvertake
        /\ \/ /\ steps' = [steps EXCEPT ![s] = @ + 1]
              /\ pc' = pc
              /\ timerQueue' = Append(RemoveAt(timerQueue, i), s)
           \/ /\ steps' = [steps EXCEPT ![s] = 0]
              /\ pc' = [pc EXCEPT ![s] = "done"]
              /\ timerQueue' = RemoveAt(timerQueue, i)

schedVars == << pc, steps, timerQueue >>

\* The browser fires every pending timer eventually.
TimerFairness == \A s \in Sessions : WF_schedVars(TimerFires(s))

FairSpec == Spec /\ TimerFairness

FairLimitSpec == LimitSpec /\ TimerFairness

TypeOK ==
    /\ started \in 0 .. MaxSessions
    /\ \A s \in Sessions : steps[s] \in 0 .. MAX_STEPS

(***************************************************************************)
(* Solver harness: runSimulationStep applied, a bounded number of times,   *)
(* to input grids, force lists, target lists and configs drawn from small  *)
(* sets.                                                                   *)
(***************************************************************************)

MaxHarnessSteps == 2

\* A grid of the given size whose obstacle cells are the <<x, y>> pairs in
\* obstacles, with velocities a and b alternating in a checkerboard (so that
\* border and obstacle cells carry velocity too) and a pressure ramp.
InputGrid(width, height, obstacles, a, b, p) ==
    [ width      |-> width,
      height     |-> height,
      pressure   |-> [y \in 0 .. height - 1 |-> [x \in 0 .. width - 1 |-> p * x]],
      u          |-> [y \in 0 .. height - 1 |-> [x \in 0 .. width - 1 |->
                        IF (x + y) % 2 = 0 THEN a ELSE b]],
      v          |-> [y \in 0 .. height - 1 |-> [x \in 0 .. width - 1 |->
                        IF (x + y) % 2 = 0 THEN b ELSE a]],
      isObstacle |-> [y \in 0 .. height - 1 |-> [x \in 0 .. width - 1 |->
                        <<x, y>> \in obstacles]] ]

InputShapes ==
    { [width |-> 3, height |-> 3, obstacles |-> {}],
      [width |-> 3, height |-> 3, obstacles |-> {<<1, 1>>}],
      [width |-> 4, height |-> 3, obstacles |-> {}],
      [width |-> 4, height |-> 3, obstacles |-> {<<0, 0>>, <<2, 1>>}] }

InputVelocities == {0 - (8 * SCALE) \div 10, 0, (15 * SCALE) \div 10}

InputPressures == {0, (2 * SCALE) \div 10}

InputGrids ==
    { InputGrid(sh.width, sh.height, sh.obstacles, a, b, p) :
        sh \in InputShapes, a \in InputVelocities, b \in InputVelocities,
        p \in InputPressures }

\* A force on the left border column, x = 0.1.
BorderForce ==
    [x |-> SCALE \div 10, y |-> SCALE \div 2, fx |-> SCALE \div 2, fy |-> SCALE \div 4]

HarnessForceLists == { <<>>, <<CenterForce>>, <<BorderForce, CenterForce>> }

HardCenterTarget ==
    [x |-> SCALE \div 2, y |-> SCALE \div 2, u |-> (2 * SCALE) \div 10, v |-> 0,
     weight |-> SCALE]

SoftBorderTarget ==
    [x |-> SCALE \div 2, y |-> 0, u |-> (2 * SCALE) \div 10, v |-> SCALE \div 10,
     weight |-> SCALE \div 2]

HarnessTargetLists == { <<>>, <<HardCenterTarget>>, <<SoftBorderTarget, HardCenterTarget>> }

\* pressureImpact = 0, timeStep = 0, viscosity = 0 as in the unit tests.
PhysicsOffConfig ==
    [ relaxationFactor |-> (2 * SCALE) \div 10,
      pressureImpact   |-> 0,
      timeStep         |-> 0,
      viscosity        |-> 0,
      iterations       |-> 1 ]

\* Strong coupling: large relaxation, pressure impact, time step, viscosity.
StiffConfig ==
    [ relaxationFactor |-> SCALE,
      pressureImpact   |-> SCALE \div 2,
      timeStep         |-> SCALE,
      viscosity        |-> SCALE \div 5,
      iterations       |-> 3 ]

HarnessConfigs == { DEFAULT_SIMULATION_CONFIG, PhysicsOffConfig, StiffConfig }

StepInit ==
    /\ HookInit
    /\ HeapIdle
    /\ PureIdle
    /\ harnessGrid \in InputGrids
    /\ harnessInput = NoGrid
    /\ harnessSteps = 0
    /\ harnessCall = NoCall

RunStep(forces, targets, config) ==
    /\ harnessSteps < MaxHarnessSteps
    /\ harnessInput' = harnessGrid
    /\ harnessGrid' = runSimulationStep(harnessGrid, forces, targets, config)
    /\ harnessSteps' = harnessSteps + 1
    /\ harnessCall' = [forces |-> forces, targets |-> targets, config |-> config]
    /\ UNCHANGED << hookVars, heapVars, pureVars >>

StepNext ==
    \E forces \in HarnessForceLists, targets \in HarnessTargetLists,
       config \in HarnessConfigs : RunStep(forces, targets, config)

StepSpec == StepInit /\ [][StepNext]_vars

\* Single calls of runSimulationStep that exercise force and target
\* injection: advection, viscosity and the pressure coupling all switched
\* off, the default config, or the stiff one.
AllOffConfig ==
    [ relaxationFactor |-> 0,
      pressureImpact   |-> 0,
      timeStep         |-> 0,
      viscosity        |-> 0,
      iterations       |-> 1 ]

InjectConfigs == { AllOffConfig, DEFAULT_SIMULATION_CONFIG, StiffConfig }

InjectGrids == InputGrids \cup { InputGrid(5, 5, {}, 0, 0, 0) }

\* {x: 0.5, y: 0.5, fx: 1.0, fy: 0.5} as in the unit test.
UnitForce ==
    [x |-> SCALE \div 2, y |-> SCALE \div 2, fx |-> SCALE, fy |-> SCALE \div 2]

\* x = 1 maps to column width, just outside the grid.
EdgeForce ==
    [x |-> SCALE, y |-> SCALE \div 2, fx |-> SCALE \div 2, fy |-> SCALE \div 4]

\* A negative x and y = 1.
OutsideForce ==
    [x |-> 0 - SCALE \div 10, y |-> SCALE, fx |-> SCALE \div 2, fy |-> SCALE \div 4]

\* x = 0.3: column 0 of a 3-wide, column 1 of a 4- or 5-wide grid.
LeftForce ==
    [x |-> (3 * SCALE) \div 10, y |-> SCALE \div 2, fx |-> 0 - SCALE \div 4, fy |-> SCALE]

InjectForceLists ==
    { <<>>, <<CenterForce>>, <<UnitForce>>, <<EdgeForce, CenterForce>>,
      <<CenterForce, LeftForce>>, <<BorderForce, CenterForce>>,
      <<LeftForce, OutsideForce, LeftForce, CenterForce>> }

SoftCenterTarget == [HardCenterTarget EXCEPT !.weight = SCALE \div 2, !.v = SCALE \div 10]

ZeroWeightTarget == [HardCenterTarget EXCEPT !.weight = 0]

OutsideTarget == [HardCenterTarget EXCEPT !.x = SCALE]

LeftTarget ==
    [x |-> (3 * SCALE) \div 10, y |-> SCALE \div 2, u |-> 0 - SCALE \div 10,
     v |-> (3 * SCALE) \div 10, weight |-> SCALE \div 4]

\* The last two lists hit the centre cell twice: soft then hard (with a v
\* component), and hard then soft.
InjectTargetLists ==
    { <<>>, <<HardCenterTarget>>, <<SoftCenterTarget>>, <<ZeroWeightTarget>>,
      <<SoftBorderTarget>>, <<OutsideTarget>>, <<LeftTarget>>,
      <<SoftCenterTarget, [HardCenterTarget EXCEPT !.v = (3 * SCALE) \div 10]>>,
      <<HardCenterTarget, SoftCenterTarget>> }

InjectInit ==
    /\ HookInit
    /\ HeapIdle
    /\ PureIdle
    /\ harnessGrid \in InjectGrids
    /\ harnessInput = NoGrid
    /\ harnessSteps = 0
    /\ harnessCall = NoCall

InjectNext ==
    /\ harnessSteps = 0
    /\ \E forces \in InjectForceLists, targets \in InjectTargetLists,
          config \in InjectConfigs : RunStep(forces, targets, config)

InjectSpec == InjectInit /\ [][InjectNext]_vars

(***************************************************************************)
(* Library harness: the exported functions of simulation.ts called on     *)
(* grid objects that live in a heap.                                       *)
(*                                                                         *)
(* A JavaScript number[][] is an outer array of references to row arrays.  *)
(* heap.rows holds the row arrays ever allocated (address = position) and  *)
(* heap.arrays the outer arrays, each a function from row index to row     *)
(* address.  A grid object holds width, height and the addresses of its    *)
(* four outer arrays.  A function that writes grid.u[y][x] writes the row  *)
(* that the object's u array points to, whoever else points to it.  The    *)
(* scratch arrays uNew, vNew of applyAdvection and applyViscosity are      *)
(* unreachable once the function returns and are not kept.                 *)
(***************************************************************************)

MaxGrids == 3

MaxWrites == 1

\* Array(height).fill(0).map(() => Array(width).fill(c)): one new outer array
\* and height new rows, holding content.
AllocArray2D(h, content, height) ==
    LET base == Len(h.rows)
    IN  [ heap |-> [ rows   |-> h.rows \o [i \in 1 .. height |-> content[i - 1]],
                     arrays |-> Append(h.arrays,
                                       [y \in 0 .. height - 1 |-> base + y + 1]) ],
          ref  |-> Len(h.arrays) + 1 ]

\* The cells of the 2D array at address ref.
ReadArray2D(h, ref) ==
    [y \in DOMAIN h.arrays[ref] |-> h.rows[h.arrays[ref][y]]]

\* The value of a grid object: its dimensions and the cells of its arrays.
Deref(h, grid) ==
    [ width      |-> grid.width,
      height     |-> grid.height,
      pressure   |-> ReadArray2D(h, grid.pressure),
      u          |-> ReadArray2D(h, grid.u),
      v          |-> ReadArray2D(h, grid.v),
      isObstacle |-> ReadArray2D(h, grid.isObstacle) ]

\* a[y][x] = content[y][x] for every cell of the 2D array at address ref.
WriteArray2D(h, ref, content) ==
    [h EXCEPT !.rows =
        [a \in 1 .. Len(h.rows) |->
            LET ys == {y \in DOMAIN h.arrays[ref] : h.arrays[ref][y] = a}
            IN  IF ys = {} THEN h.rows[a] ELSE content[CHOOSE y \in ys : TRUE]]]

\* In-place update of the cells of a grid object to those of value: the
\* assignments to pressure, u, v and isObstacle, row by row.  A row that
\* belongs to several of the arrays keeps what was assigned last.
Store(h, grid, value) ==
    LET RowOf(a, ref, content, rest) ==
            LET ys == {y \in DOMAIN h.arrays[ref] : h.arrays[ref][y] = a}
            IN  IF ys = {} THEN rest ELSE content[CHOOSE y \in ys : TRUE]
    IN  [h EXCEPT !.rows = [a \in 1 .. Len(h.rows) |->
                    RowOf(a, grid.isObstacle, value.isObstacle,
                      RowOf(a, grid.v, value.v,
                        RowOf(a, grid.u, value.u,
                          RowOf(a, grid.pressure, value.pressure, h.rows[a]))))]]

\* createSimulationGrid: four fresh arrays, or the error of Array(n).
HeapCreateSimulationGrid(h, width, height) ==
    LET made == createSimulationGrid(width, height)
    IN  IF IsError(made) THEN [heap |-> h, result |-> made]
        ELSE LET p == AllocArray2D(h, made.pressure, height)
                 u == AllocArray2D(p.heap, made.u, height)
                 v == AllocArray2D(u.heap, made.v, height)
                 o == AllocArray2D(v.heap, made.isObstacle, height)
             IN  [ heap   |-> o.heap,
                   result |-> [ width |-> width, height |-> height,
                                pressure |-> p.ref, u |-> u.ref, v |-> v.ref,
                                isObstacle |-> o.ref ] ]

\* createGridFromMask: the throw, or a fresh grid whose isObstacle cells are
\* then assigned from the mask.
HeapCreateGridFromMask(h, mask) ==
    LET made == createGridFromMask(mask)
    IN  IF IsError(made) THEN [heap |-> h, result |-> made]
        ELSE LET created == HeapCreateSimulationGrid(h, made.width, made.height)
             IN  [ heap   |-> WriteArray2D(created.heap, created.result.isObstacle,
                                           made.isObstacle),
                   result |-> created.result ]

\* Mutant: the copy takes over the u and v arrays of its argument.
HeapCopySimulationGrid_SharedVelocity(h, grid) ==
    LET created == HeapCreateSimulationGrid(h, grid.width, grid.height)
        shared == [created.result EXCEPT !.u = grid.u, !.v = grid.v]
    IN  [ heap   |-> Store(created.heap, shared, copySimulationGrid(Deref(h, grid))),
          result |-> shared ]

\* Mutant: the copy takes over the isObstacle array of its argument.
HeapCopySimulationGrid_SharedObstacles(h, grid) ==
    LET created == HeapCreateSimulationGrid(h, grid.width, grid.height)
        shared == [created.result EXCEPT !.isObstacle = grid.isObstacle]
    IN  [ heap   |-> Store(created.heap, shared, copySimulationGrid(Deref(h, grid))),
          result |-> shared ]

\* copySimulationGrid: a fresh grid whose cells are then assigned one by one.
HeapCopySimulationGrid(h, grid) ==
    LET created == HeapCreateSimulationGrid(h, grid.width, grid.height)
    IN  [ heap   |-> Store(created.heap, created.result,
                           copySimulationGrid(Deref(h, grid))),
          result |-> created.result ]

\* The operators of the step, in order, in place on newGrid.  They read and
\* write the cells of newGrid only, so what they leave in the heap is their
\* composition, computed on the cells of newGrid and stored through its
\* references.
HeapStepInPlace(h, newGrid, forces, targets, config) ==
    Store(h, newGrid,
          applyBoundaryConditions(
            applyTargetVelocities(
              updateVelocity(
                updatePressure(
                  applyViscosity(
                    applyAdvection(
                      applyForces(Deref(h, newGrid), forces),
                      config.timeStep),
                    config.viscosity),
                  config.relaxationFactor),
                config.pressureImpact),
              targets)))

\* The operators run in place on a fresh copy, which is what is returned.
StepOnCopy(copied, forces, targets, config) ==
    [ heap   |-> HeapStepInPlace(copied.heap, copied.result, forces, targets, config),
      result |-> copied.result ]

\* runSimulationStep: copy, then every operator in place on the copy.
HeapRunSimulationStep(h, grid, forces, targets, config) ==
    StepOnCopy(HeapCopySimulationGrid(h, grid), forces, targets, config)

\* Mutant: the forces are applied in the first iteration only.
RECURSIVE SteadyStateLoop_ForcesOnce(_, _, _, _, _)
SteadyStateLoop_ForcesOnce(current, i, forces, targets, config) ==
    IF i < config.iterations
    THEN SteadyStateLoop_ForcesOnce(
             HeapRunSimulationStep(current.heap, current.result,
                                   IF i = 0 THEN forces ELSE <<>>, targets, config),
             i + 1, forces, targets, config)
    ELSE current

\* for (let i = 0; i < config.iterations; i++) currentGrid = runSimulationStep(...)
\* current is the heap so far together with currentGrid.
RECURSIVE SteadyStateLoop(_, _, _, _, _)
SteadyStateLoop(current, i, forces, targets, config) ==
    IF i < config.iterations
    THEN SteadyStateLoop(
             HeapRunSimulationStep(current.heap, current.result, forces, targets, config),
             i + 1, forces, targets, config)
    ELSE current

HeapRunSteadyStateSimulation(h, grid, forces, targets, config) ==
    SteadyStateLoop(HeapCopySimulationGrid(h, grid), 0, forces, targets, config)

\* The grids the caller starts from.
HeapInputGrids ==
    { InputGrid(3, 3, {}, 0, 0, 0),
      InputGrid(3, 3, {<<1, 1>>}, (15 * SCALE) \div 10, 0 - (8 * SCALE) \div 10,
                (2 * SCALE) \div 10),
      InputGrid(4, 3, {}, 0 - (8 * SCALE) \div 10, (15 * SCALE) \div 10, 0) }

HeapForceLists == { <<>>, <<BorderForce, CenterForce>> }

HeapTargetLists == { <<>>, <<HardCenterTarget>> }

\* Configs for runSteadyStateSimulation: two, one, zero and minus one
\* iterations.
SteadyConfigs ==
    { [DEFAULT_SIMULATION_CONFIG EXCEPT !.iterations = 2],
      PhysicsOffConfig,
      [DEFAULT_SIMULATION_CONFIG EXCEPT !.iterations = 0],
      [PhysicsOffConfig EXCEPT !.iterations = 0 - 1] }

\* What the caller writes into a cell of a grid it holds.
CellWrites ==
    { [field |-> "pressure",   value |-> 7 * SCALE],
      [field |-> "u",          value |-> 7 * SCALE],
      [field |-> "v",          value |-> 0 - 7 * SCALE],
      [field |-> "isObstacle", value |-> TRUE] }

\* The caller holds one grid, built cell by cell.
HeapInit ==
    /\ HookInit
    /\ StepIdle
    /\ PureIdle
    /\ \E g \in HeapInputGrids :
          LET created == HeapCreateSimulationGrid(EmptyHeap, g.width, g.height)
          IN  /\ heap = Store(created.heap, created.result, g)
              /\ heapGrids = <<created.result>>
    /\ heapCall = [op |-> "input", arg |-> 0, result |-> 1, error |-> "", input |-> <<>>]
    /\ heapWrites = 0

\* The bookkeeping of a call on grid number arg that returned r.
Returned(op, arg, input, r) ==
    /\ heap' = r.heap
    /\ IF IsError(r.result)
       THEN /\ heapGrids' = heapGrids
            /\ heapCall' = [op |-> op, arg |-> arg, result |-> 0,
                            error |-> r.result.error, input |-> input]
       ELSE /\ heapGrids' = Append(heapGrids, r.result)
            /\ heapCall' = [op |-> op, arg |-> arg, result |-> Len(heapGrids) + 1,
                            error |-> "", input |-> input]
    /\ UNCHANGED << heapWrites, hookVars, stepVars, pureVars >>

CallCreate(width, height) ==
    /\ Len(heapGrids) < MaxGrids
    /\ Returned("createSimulationGrid", 0, [width |-> width, height |-> height],
                HeapCreateSimulationGrid(heap, width, height))

CallFromMask(mask) ==
    /\ Len(heapGrids) < MaxGrids
    /\ Returned("createGridFromMask", 0, [mask |-> mask],
                HeapCreateGridFromMask(heap, mask))

CallCopy(i) ==
    /\ Len(heapGrids) < MaxGrids
    /\ Returned("copySimulationGrid", i, <<>>,
                HeapCopySimulationGrid(heap, heapGrids[i]))

CallStep(i, forces, targets, config) ==
    /\ Len(heapGrids) < MaxGrids
    /\ Returned("runSimulationStep", i,
                [forces |-> forces, targets |-> targets, config |-> config],
                HeapRunSimulationStep(heap, heapGrids[i], forces, targets, config))

CallSteady(i, forces, targets, config) ==
    /\ Len(heapGrids) < MaxGrids
    /\ Returned("runSteadyStateSimulation", i,
                [forces |-> forces, targets |-> targets, config |-> config],
                HeapRunSteadyStateSimulation(heap, heapGrids[i], forces, targets, config))

\* The caller assigns grid[field][y][x] = value on grid number i.
CellWrite(i, field, y, x, value) ==
    /\ heapWrites < MaxWrites
    /\ y \in 0 .. heapGrids[i].height - 1
    /\ x \in 0 .. heapGrids[i].width - 1
    /\ LET row == heap.arrays[heapGrids[i][field]][y]
       IN  heap' = [heap EXCEPT !.rows[row][x] = value]
    /\ heapWrites' = heapWrites + 1
    /\ heapCall' = [op |-> "write", arg |-> i, result |-> 0, error |-> "",
                    input |-> [field |-> field, y |-> y, x |-> x, value |-> value]]
    /\ UNCHANGED << heapGrids, hookVars, stepVars, pureVars >>

\* Copies, and writes by the caller into any grid it holds.
CopyNext ==
    \/ \E i \in 1 .. Len(heapGrids) : CallCopy(i)
    \/ \E i \in 1 .. Len(heapGrids) : \E w \in CellWrites : \E y \in 0 .. 1 :
          \E x \in 1 .. 2 : CellWrite(i, w.field, y, x, w.value)

CopySpec == HeapInit /\ [][CopyNext]_vars

\* Steps and steady-state runs on any grid the caller holds.
RunNext ==
    \/ \E i \in 1 .. Len(heapGrids) : \E forces \in HeapForceLists :
          \E targets \in HeapTargetLists : \E config \in HarnessConfigs :
             CallStep(i, forces, targets, config)
    \/ \E i \in 1 .. Len(heapGrids) : \E forces \in HeapForceLists :
          \E targets \in HeapTargetLists : \E config \in SteadyConfigs :
             CallSteady(i, forces, targets, config)

RunSpec == HeapInit /\ [][RunNext]_vars

\* The dimensions and masks handed to the two constructors.
CreateDimensions == (0 - 1) .. 2

CreateMasks ==
    { <<>>, << <<>> >>, << <<>>, <<>> >>,
      << <<TRUE>> >>,
      << <<FALSE, TRUE, FALSE>>, <<TRUE, FALSE, FALSE>> >>,
      MaskBlocked }

CreateNext ==
    \/ \E width \in CreateDimensions : \E height \in CreateDimensions :
          CallCreate(width, height)
    \/ \E mask \in CreateMasks : CallFromMask(mask)

CreateSpec == Init /\ [][CreateNext]_vars

(***************************************************************************)
(* Function harness: one call of a side-effect-free function of the        *)
(* library, with its arguments drawn from small sets.  An omitted optional *)
(* argument is NULL.                                                       *)
(***************************************************************************)

\* The number of elements of a 0-based array.
Length(array) == Cardinality(DOMAIN array)

\* let maxDiff = 0 (or what the u loops left); for y < current.length, for
\* x < current[y].length: maxDiff = Math.max(maxDiff, |current - previous|).
RECURSIVE ArrayMaxDiff(_, _, _, _, _)
ArrayMaxDiff(cur, prev, y, x, acc) ==
    IF y >= Length(cur) THEN acc
    ELSE IF x >= Length(cur[y]) THEN ArrayMaxDiff(cur, prev, y + 1, 0, acc)
    ELSE ArrayMaxDiff(cur, prev, y, x + 1, Max(acc, Abs(cur[y][x] - prev[y][x])))

\* threshold: number = 0.001
DefaultThreshold(threshold) ==
    IF threshold = NULL THEN SCALE \div 1000 ELSE threshold[1]

\* Mutant: a maximum equal to the threshold counts as converged.
Below_Inclusive(maxDiff, threshold) == maxDiff <= threshold

\* return maxDiff < threshold
Below(maxDiff, threshold) == maxDiff < threshold

hasConverged(current, previous, threshold) ==
    IF current = NULL \/ previous = NULL THEN FALSE
    ELSE LET uMax == ArrayMaxDiff(current[1].u, previous[1].u, 0, 0, 0)
         IN  Below(ArrayMaxDiff(current[1].v, previous[1].v, 0, 0, uMax),
                   DefaultThreshold(threshold))

\* A 2 x 2 velocity field, all 0.5 in u and -0.25 in v, except that component
\* c of cell (x, y) is larger by d.
ProbeField(c, x, y, d) ==
    [ u |-> [j \in 0 .. 1 |-> [i \in 0 .. 1 |->
               SCALE \div 2 + (IF c = "u" /\ i = x /\ j = y THEN d ELSE 0)]],
      v |-> [j \in 0 .. 1 |-> [i \in 0 .. 1 |->
               (IF c = "v" /\ i = x /\ j = y THEN d ELSE 0) - SCALE \div 4]] ]

\* Differences around the thresholds 0.0001 and 0.001, of both signs.
ProbeDiffs == {0, 1, 0 - 1, 9, 10, 0 - 10, 11}

ProbeFields ==
    { ProbeField(c, x, 1 - x, d) : c \in {"u", "v"}, x \in 0 .. 1, d \in ProbeDiffs }

ProbeThresholds == {NULL, Some(0), Some(1), Some(SCALE \div 1000), Some(SCALE)}

ConvergedCalls ==
    { [op |-> "hasConverged", current |-> c, previous |-> p, threshold |-> t] :
        c \in {NULL, Some(ProbeField("u", 0, 0, 0))},
        p \in {NULL} \cup { Some(f) : f \in ProbeFields },
        t \in ProbeThresholds }
      \cup
    \* fields without rows
    { [op |-> "hasConverged", current |-> Some([u |-> <<>>, v |-> <<>>]),
       previous |-> Some([u |-> <<>>, v |-> <<>>]), threshold |-> t] :
        t \in ProbeThresholds }
      \cup
    { [op |-> "hasConverged", current |-> Some(ProbeField("v", 1, 1, d)),
       previous |-> Some(ProbeField("u", 0, 1, e)), threshold |-> NULL] :
        d \in ProbeDiffs, e \in ProbeDiffs }

\* weight: number = 0.1
DefaultWeight(weight) == IF weight = NULL THEN SCALE \div 10 ELSE weight[1]

\* Mutant: the callback normalises the force it is given in place.
ForcesAfterMap_Normalised(forces) ==
    [i \in 1 .. Len(forces) |-> [forces[i] EXCEPT !.fx = 0, !.fy = 0]]

\* The argument array after forces.map(force => ({...})): map builds a new
\* array and the callback only reads its force.
ForcesAfterMap(forces) == forces

ProbeForceLists ==
    LET ProbeForces == {SkewForce, OutsideForce, LeftForce}
    IN  {<<>>, <<LeftForce, SkewForce, LeftForce>>}
            \cup { <<f>> : f \in ProbeForces }
            \cup { <<f, g>> : f \in ProbeForces, g \in ProbeForces }

ProbeWeights == {NULL, Some(0), Some(SCALE \div 2), Some(SCALE), Some(3 * SCALE)}

ConvertCalls ==
    { [op |-> "convertForceVectorsToTargetVelocities", forces |-> f, weight |-> w] :
        f \in ProbeForceLists, w \in ProbeWeights }


\* Grids with one, two and six interior cells, all moving, and time steps 0,
\* 0.1 and 1 (the last one backtraces beyond the clamping range).
AdvectCalls ==
    { [op |-> "applyAdvection", grid |-> g, timeStep |-> t] :
        g \in InputGrids \cup
              { InputGrid(5, 4, {<<2, 1>>}, a, b, 0) :
                  a \in InputVelocities \ {0}, b \in InputVelocities \ {0} },
        t \in {0, SCALE \div 10, SCALE} }

PureInit ==
    /\ HookInit
    /\ StepIdle
    /\ HeapIdle
    /\ pureCall \in ConvergedCalls \cup ConvertCalls \cup AdvectCalls
    /\ pureResult = NoResult

CallHasConverged ==
    /\ pureCall.op = "hasConverged"
    /\ ~pureResult.done
    /\ pureResult' = [done |-> TRUE,
                      value |-> hasConverged(pureCall.current, pureCall.previous,
                                             pureCall.threshold)]
    /\ UNCHANGED << pureCall, hookVars, stepVars, heapVars >>

CallConvert ==
    /\ pureCall.op = "convertForceVectorsToTargetVelocities"
    /\ ~pureResult.done
    /\ pureResult' = [done |-> TRUE,
                      value |-> convertForceVectorsToTargetVelocities(
                                    pureCall.forces, DefaultWeight(pureCall.weight)),
                      forces |-> ForcesAfterMap(pureCall.forces)]
    /\ UNCHANGED << pureCall, hookVars, stepVars, heapVars >>

\* applyAdvection modifies the grid it is given: the result is that grid
\* after the call.
CallAdvection ==
    /\ pureCall.op = "applyAdvection"
    /\ ~pureResult.done
    /\ pureResult' = [done |-> TRUE,
                      value |-> applyAdvection(pureCall.grid, pureCall.timeStep)]
    /\ UNCHANGED << pureCall, hookVars, stepVars, heapVars >>

PureNext ==
    \/ CallHasConverged
    \/ CallConvert
    \/ CallAdvection

PureSpec == PureInit /\ [][PureNext]_vars

(***************************************************************************)
(* The hook mounted once with props whose targets reach no interior fluid  *)
(* cell (and, for contrast, with props whose target does), on masks of     *)
(* several shapes.                                                         *)
(***************************************************************************)

MaskSingle == << <<FALSE>> >>

\* 4 x 3, the left one of its two interior cells an obstacle.
MaskWide ==
    << <<FALSE, FALSE, FALSE, FALSE>>,
       <<FALSE, TRUE,  FALSE, FALSE>>,
       <<FALSE, FALSE, FALSE, FALSE>> >>

\* 4 x 4 with obstacles on the border and in the interior.
MaskSquare ==
    << <<TRUE,  FALSE, FALSE, FALSE>>,
       <<FALSE, FALSE, TRUE,  FALSE>>,
       <<FALSE, FALSE, FALSE, FALSE>>,
       <<FALSE, FALSE, FALSE, TRUE>> >>

\* No force at all, or forces drawn on the left border column, at x = 1 and
\* at a negative x, on each of the masks.
QuietProps ==
    { [mask |-> m, forces |-> f, weight |-> w] :
        m \in {MaskOpen, MaskBlocked, MaskSingle, MaskWide, MaskSquare},
        f \in { <<>>, <<BorderForce>>, <<OutsideForce, EdgeForce, BorderForce>> },
        w \in {SCALE \div 2, SCALE} }
      \cup
    \* forces drawn on an obstacle cell
    { [mask |-> MaskBlocked, forces |-> <<CenterForce>>, weight |-> SCALE],
      [mask |-> MaskWide, forces |-> <<LeftForce, BorderForce>>, weight |-> SCALE \div 2] }

\* Props whose force is drawn on an interior fluid cell.
LoudProps ==
    { [mask |-> MaskOpen, forces |-> <<SkewForce>>, weight |-> SCALE \div 2],
      [mask |-> MaskWide, forces |-> <<LeftForce, CenterForce>>, weight |-> SCALE \div 2] }

StartQuiet ==
    /\ started = 0
    /\ \E p \in QuietProps \cup LoudProps :
          DepsChangeStart(p.mask, p.forces, p.weight)

QuietNext ==
    \/ StartQuiet
    \/ DepsChangeNoMask
    \/ AbortSimulation
    \/ \E s \in Sessions : Wake(s)

QuietSpec == Init /\ [][QuietNext]_vars

(***************************************************************************)
(* Claims                                                                  *)
(***************************************************************************)

OnBorder(grid, x, y) ==
    x = 0 \/ x = grid.width - 1 \/ y = 0 \/ y = grid.height - 1

\* C1: after any number (at least one) of consecutive runSimulationStep
\* calls, whatever the input grid, forces, targets and config, every
\* obstacle cell and every cell of the outermost rows and columns of the
\* returned grid has u = 0 and v = 0.
C1_BoundaryZeroAfterStep ==
    harnessSteps >= 1 =>
        \A y \in 0 .. harnessGrid.height - 1 : \A x \in 0 .. harnessGrid.width - 1 :
            (harnessGrid.isObstacle[y][x] \/ OnBorder(harnessGrid, x, y)) =>
                harnessGrid.u[y][x] = 0 /\ harnessGrid.v[y][x] = 0

\* C1 witness: a step whose input carried velocity on a border cell and on an
\* interior obstacle cell, and whose result still moves somewhere inside.
C1_Witness ==
    /\ harnessSteps >= 1
    /\ harnessInput.width = 4
    /\ harnessInput.isObstacle[1][2]
    /\ harnessInput.u[1][2] # 0
    /\ harnessInput.v[0][1] # 0
    /\ harnessGrid.u[1][1] # 0

\* This step is a wake-up of session s: one more loop iteration of it.
Woke(s) == pc[s] = "waiting" /\ (pc'[s] = "done" \/ steps'[s] = steps[s] + 1)

\* C2: cancel-then-restart: every session created before the most recent one
\* has its abort signal set, from the moment the most recent one is created
\* (so before its first step); at most one controller is not aborted.
C2_CancelThenRestart ==
    /\ \A s \in Sessions : (s < started) => aborted[s]
    /\ \A s \in Sessions : \A t \in Sessions :
          (s # t /\ pc[s] # "idle" /\ pc[t] # "idle") => (aborted[s] \/ aborted[t])

\* C2 witness: session 2 was created while session 1 was still in its loop.
C2_Witness ==
    /\ started = 2
    /\ pc[1] = "waiting" /\ steps[1] >= 1 /\ aborted[1]
    /\ pc[2] = "waiting" /\ steps[2] = 0 /\ ~aborted[2]

\* C3 as stated: a session whose abort signal is set makes no further call
\* of runSimulationStep.
C3_NoStepAfterAbort == \A s \in Sessions : stepsAfterAbort[s] = 0

\* C3 amended: a session whose abort signal is set makes at most one further
\* call of runSimulationStep (the iteration that had passed the loop test and
\* was awaiting its timer), and none once it has left its loop.
C3_AtMostOneStepAfterAbort ==
    /\ \A s \in Sessions : stepsAfterAbort[s] <= 1
    /\ \A s \in Sessions : stepsAfterAbort[s] = 1 => pc[s] = "done"

\* C3 witness: an aborted session that ran its one trailing step.
C3_Witness ==
    \E s \in Sessions : aborted[s] /\ stepsAfterAbort[s] = 1 /\ pc[s] = "done"
                        /\ currentStep >= 2

\* C4: a wake-up of a session whose abort signal is set leaves velocityField
\* as it is, and velocityField changes only in a wake-up of a session whose
\* signal is not set.
C4_NoEmitAfterAbort ==
    [][ /\ \A s \in Sessions : (aborted[s] /\ Woke(s)) => velocityField' = velocityField
        /\ (velocityField' # velocityField) =>
              \E s \in Sessions : Woke(s) /\ ~aborted[s] ]_vars

\* C4 witness: an aborted session has run a step past its last emission: the
\* exposed field is still that of the step before.
C4_Witness ==
    \E s \in Sessions :
        /\ aborted[s] /\ pc[s] = "done" /\ stepsAfterAbort[s] = 1
        /\ velocityField # NULL
        /\ lastEmit.session = s
        /\ lastEmit.step >= 1
        /\ currentStep = lastEmit.step + 1

\* C5: a session whose abort signal is set leaves its loop at its next
\* wake-up, ends as Aborted, and if its controller is still the current one
\* isSimulating is false afterwards; with timers firing, that wake-up comes.
C5_AbortResponse ==
    /\ [][ \A s \in Sessions : (aborted[s] /\ Woke(s)) =>
              /\ pc'[s] = "done"
              /\ outcome'[s] = "Aborted"
              /\ (abortControllerRef = s => ~isSimulating') ]_vars
    /\ \A s \in Sessions : (aborted[s] /\ pc[s] = "waiting") ~> (pc[s] = "done")

\* C5 witness: the caller aborted the current session in mid-run; it has
\* ended and isSimulating is false.
C5_Witness ==
    \E s \in Sessions :
        /\ abortControllerRef = s /\ aborted[s] /\ pc[s] = "done"
        /\ outcome[s] = "Aborted" /\ currentStep >= 3 /\ ~isSimulating

\* The terminal outcomes of a session.
TerminalOutcomes == { "Converged", "Aborted", "StepLimitReached" }

\* This step is the wake-up in which session s leaves its loop and returns.
Ended(s) == pc[s] = "waiting" /\ pc'[s] = "done"

\* C6: a session calls runSimulationStep at most MAX_STEPS times; when it
\* returns its outcome is Converged, Aborted or StepLimitReached; an
\* uncancelled session that has not converged returns only at step MAX_STEPS,
\* reporting convergenceSteps = null; and with timers firing every started
\* session returns.
C6_Termination ==
    /\ [][ \A s \in Sessions :
              /\ Woke(s) => steps[s] < MAX_STEPS
              /\ Ended(s) =>
                    /\ outcome'[s] \in TerminalOutcomes
                    /\ (outcome'[s] = "StepLimitReached") <=>
                          (~aborted[s] /\ convergenceSteps' = NULL)
                    /\ (outcome'[s] = "StepLimitReached") =>
                          /\ steps[s] + 1 = MAX_STEPS
                          /\ currentStep' = MAX_STEPS ]_vars
    /\ \A s \in Sessions :
          (pc[s] = "waiting") ~> (pc[s] = "done" /\ outcome[s] \in TerminalOutcomes)

\* C6 witness: a session that was never cancelled ran into the ceiling.
C6_Witness ==
    \E s \in Sessions :
        /\ pc[s] = "done" /\ outcome[s] = "StepLimitReached" /\ ~aborted[s]
        /\ currentStep = MAX_STEPS /\ convergenceSteps = NULL /\ ~isSimulating

\* The absolute differences, cell by cell and for both components, between
\* two velocity fields of a width x height grid.
CellDiffs(new, old, width, height) ==
    { Abs(new.u[y][x] - old.u[y][x]) : y \in 0 .. height - 1, x \in 0 .. width - 1 }
        \cup
    { Abs(new.v[y][x] - old.v[y][x]) : y \in 0 .. height - 1, x \in 0 .. width - 1 }

Maximum(S) == CHOOSE m \in S : \A n \in S : n <= m

\* The field the step of this wake-up of session s produces.
StepField(s) ==
    LET grid == runSimulationStep(currentGrid[s], <<>>, targetVelocities[s],
                                  DEFAULT_SIMULATION_CONFIG)
    IN  [u |-> grid.u, v |-> grid.v]

\* The field session s had before the step of this wake-up.
FieldBefore(s) == [u |-> currentGrid[s].u, v |-> currentGrid[s].v]

\* The largest change of any velocity component made by the step of this
\* wake-up of session s.
StepMaxDiff(s) ==
    Maximum(CellDiffs(StepField(s), FieldBefore(s),
                      currentGrid[s].width, currentGrid[s].height))

\* C7: an uncancelled session declares convergence at step k exactly when
\* k >= 2 and every velocity component of every cell changed by less than
\* 0.0001 in step k (so at the first such step, the session having continued
\* until then); the declaration carries k; and a session that has returned
\* holds no timer and never runs again.
C7_ConvergenceRule ==
    /\ [][ \A s \in Sessions :
              /\ (Woke(s) /\ ~aborted[s]) =>
                    /\ (outcome'[s] = "Converged") <=>
                          (steps[s] + 1 >= 2 /\ StepMaxDiff(s) < CONVERGENCE_THRESHOLD)
                    /\ (outcome'[s] = "Converged") =>
                          (pc'[s] = "done" /\ convergenceSteps' = Some(steps[s] + 1))
              /\ (pc[s] = "done") => (pc'[s] = "done" /\ outcome'[s] = outcome[s]) ]_vars
    /\ [](\A s \in Sessions : \A i \in 1 .. Len(timerQueue) :
              timerQueue[i] = s => pc[s] = "waiting")

\* C7 witness: a session converged after several steps, the step before
\* having changed some cell by exactly the threshold.
C7_Witness ==
    \E s \in Sessions :
        /\ pc[s] = "done" /\ outcome[s] = "Converged"
        /\ convergenceSteps # NULL /\ convergenceSteps[1] >= 3
        /\ currentDelta # NULL /\ currentDelta[1] < CONVERGENCE_THRESHOLD

C9_TerminationTelemetry ==
    /\ [][ \A s \in Sessions : (Ended(s) /\ ~aborted[s]) =>
              /\ (outcome'[s] = "Converged") =>
                    /\ convergenceSteps' = Some(steps[s] + 1)
                    /\ currentStep' = steps[s] + 1
              /\ (outcome'[s] = "StepLimitReached") => convergenceSteps' = NULL ]_vars
    /\ [](convergenceSteps # NULL =>
              (convergenceSteps[1] >= 2 /\ convergenceSteps[1] <= MAX_STEPS))

\* C9 witness: an uncancelled session converged and its step count is shown.
C9_Witness ==
    \E s \in Sessions :
        /\ pc[s] = "done" /\ outcome[s] = "Converged" /\ ~aborted[s]
        /\ convergenceSteps # NULL /\ convergenceSteps[1] = currentStep
        /\ currentStep >= 3

OuterArrays(grid) == {grid.pressure, grid.u, grid.v, grid.isObstacle}

RowArrays(h, grid) ==
    UNION { {h.arrays[ref][y] : y \in DOMAIN h.arrays[ref]} : ref \in OuterArrays(grid) }

\* Two grid objects have no outer array and no row in common.
Independent(h, g1, g2) ==
    /\ OuterArrays(g1) \cap OuterArrays(g2) = {}
    /\ RowArrays(h, g1) \cap RowArrays(h, g2) = {}

\* This step is a call of op that returned a new grid object.
ReturnedGrid(op) ==
    /\ heapCall'.op = op
    /\ heapGrids' = Append(heapGrids, heapGrids'[Len(heapGrids')])
    /\ Len(heapGrids') = Len(heapGrids) + 1

\* Every grid the caller held before this step has the cells it had.
HeldGridsUnchanged ==
    \A i \in 1 .. Len(heapGrids) :
        Deref(heap', heapGrids[i]) = Deref(heap, heapGrids[i])

\* C11: a call of runSimulationStep leaves every cell of its argument (and
\* of every grid handed out earlier, such as an emitted snapshot) as it was,
\* and the grid it returns has no outer array and no row in common with any
\* of them; the returned cells are those of the step computed on the
\* argument's cells.
C11_StepCopiesOnWrite ==
    [][ ReturnedGrid("runSimulationStep") =>
          LET result == heapGrids'[Len(heapGrids')]
              in == heapCall'.input
          IN  /\ HeldGridsUnchanged
              /\ \A i \in 1 .. Len(heapGrids) : Independent(heap', result, heapGrids[i])
              /\ Deref(heap', result) =
                    runSimulationStep(Deref(heap, heapGrids[heapCall'.arg]),
                                      in.forces, in.targets, in.config) ]_vars

\* C11 witness: a step was run on the result of an earlier step and changed
\* the velocity, and the earlier result still has its cells.
C11_Witness ==
    /\ heapCall.op = "runSimulationStep" /\ heapCall.arg = 2 /\ heapCall.result = 3
    /\ Deref(heap, heapGrids[3]).u # Deref(heap, heapGrids[2]).u
    /\ Deref(heap, heapGrids[2]).u # Deref(heap, heapGrids[1]).u

\* C12: copySimulationGrid returns a grid with the width, height and cells
\* of its argument and no outer array or row in common with any grid held;
\* a later write to one cell of any grid changes that cell of that grid and
\* no cell of any other grid.
C12_CopyEqualAndIndependent ==
    [][ /\ ReturnedGrid("copySimulationGrid") =>
              LET result == heapGrids'[Len(heapGrids')]
              IN  /\ Deref(heap', result) = Deref(heap, heapGrids[heapCall'.arg])
                  /\ HeldGridsUnchanged
                  /\ \A i \in 1 .. Len(heapGrids) :
                        Independent(heap', result, heapGrids[i])
        /\ (heapCall'.op = "write" /\ heapWrites' = heapWrites + 1) =>
              LET w == heapCall'.input
              IN  \A i \in 1 .. Len(heapGrids) :
                     IF i = heapCall'.arg
                     THEN Deref(heap', heapGrids[i]) =
                             [Deref(heap, heapGrids[i]) EXCEPT
                                 ![w.field][w.y][w.x] = w.value]
                     ELSE Deref(heap', heapGrids[i]) = Deref(heap, heapGrids[i]) ]_vars

\* C12 witness: the original was written after it had been copied, and the
\* copy still has the old cell.
C12_Witness ==
    /\ Len(heapGrids) >= 2
    /\ heapCall.op = "write" /\ heapCall.arg = 1 /\ heapCall.input.field = "u"
    /\ Deref(heap, heapGrids[1]).u # Deref(heap, heapGrids[2]).u
    /\ Deref(heap, heapGrids[1]).v = Deref(heap, heapGrids[2]).v

\* This step is a call of op, whether it returned or threw.
Called(op) == heapCall'.op = op /\ << heap', heapGrids', heapCall' >> # << heap, heapGrids, heapCall >>

\* Every cell of a height x width array of numbers is zero.
AllZero(array, width, height) ==
    \A y \in 0 .. height - 1 : \A x \in 0 .. width - 1 : array[y][x] = 0

\* C13: createGridFromMask called with a mask of zero rows or with a first
\* row of zero columns ends in an error and creates nothing; called with a
\* non-empty rectangular mask it returns a grid with as many rows and
\* columns as the mask, isObstacle equal to the mask cell by cell and
\* pressure, u, v zero everywhere.
C13_GridFromMask ==
    [][ Called("createGridFromMask") =>
          LET mask == heapCall'.input.mask
          IN  IF Len(mask) = 0 \/ Len(mask[1]) = 0
              THEN /\ heapCall'.error # ""
                   /\ heapGrids' = heapGrids
                   /\ heap' = heap
              ELSE /\ heapCall'.error = ""
                   /\ Len(heapGrids') = Len(heapGrids) + 1
                   /\ LET grid == Deref(heap', heapGrids'[Len(heapGrids')])
                      IN  /\ grid.height = Len(mask)
                          /\ grid.width = Len(mask[1])
                          /\ \A y \in 0 .. grid.height - 1 : \A x \in 0 .. grid.width - 1 :
                                grid.isObstacle[y][x] = mask[y + 1][x + 1]
                          /\ DOMAIN grid.isObstacle = 0 .. grid.height - 1
                          /\ AllZero(grid.pressure, grid.width, grid.height)
                          /\ AllZero(grid.u, grid.width, grid.height)
                          /\ AllZero(grid.v, grid.width, grid.height) ]_vars

\* C13 witness: a 2 x 3 mask was turned into a grid, and a later call with
\* [[]] ended in the error.
C13_Witness ==
    /\ Len(heapGrids) >= 1
    /\ heapGrids[1].width = 3 /\ heapGrids[1].height = 2
    /\ Deref(heap, heapGrids[1]).isObstacle[0][1]
    /\ heapCall.op = "createGridFromMask"
    /\ heapCall.error = EmptyMaskError.error
    /\ heapCall.input.mask = << <<>> >>

\* C14 as stated: createSimulationGrid ends in an error whenever width <= 0
\* or height <= 0, and otherwise returns a grid of height rows of width cells
\* with all fields zero and no obstacle.
C14_InvalidDimensionRejected ==
    [][ Called("createSimulationGrid") =>
          LET width  == heapCall'.input.width
              height == heapCall'.input.height
          IN  IF width <= 0 \/ height <= 0
              THEN /\ heapCall'.error # ""
                   /\ heapGrids' = heapGrids
              ELSE /\ heapCall'.error = ""
                   /\ Len(heapGrids') = Len(heapGrids) + 1
                   /\ LET grid == Deref(heap', heapGrids'[Len(heapGrids')])
                      IN  /\ grid.width = width /\ grid.height = height
                          /\ \A f \in {"pressure", "u", "v", "isObstacle"} :
                                /\ DOMAIN grid[f] = 0 .. height - 1
                                /\ \A y \in 0 .. height - 1 :
                                      DOMAIN grid[f][y] = 0 .. width - 1
                          /\ AllZero(grid.pressure, width, height)
                          /\ AllZero(grid.u, width, height)
                          /\ AllZero(grid.v, width, height)
                          /\ \A y \in 0 .. height - 1 : \A x \in 0 .. width - 1 :
                                ~grid.isObstacle[y][x] ]_vars

\* C14, what the code does: it ends in an error only when Array() is given
\* a negative length (height < 0, or width < 0 with at least one row to
\* build); every other call returns a grid, for positive dimensions the one
\* described, for a zero dimension a grid without cells.
C14_OnlyNegativeLengthRejected ==
    [][ Called("createSimulationGrid") =>
          LET width  == heapCall'.input.width
              height == heapCall'.input.height
          IN  IF height < 0 \/ (height > 0 /\ width < 0)
              THEN /\ heapCall'.error = InvalidArrayLength.error
                   /\ heapGrids' = heapGrids
              ELSE /\ heapCall'.error = ""
                   /\ Len(heapGrids') = Len(heapGrids) + 1
                   /\ LET grid == Deref(heap', heapGrids'[Len(heapGrids')])
                      IN  /\ grid.width = width /\ grid.height = height
                          /\ \A f \in {"pressure", "u", "v", "isObstacle"} :
                                /\ DOMAIN grid[f] = 0 .. height - 1
                                /\ \A y \in 0 .. height - 1 :
                                      DOMAIN grid[f][y] = 0 .. width - 1
                          /\ AllZero(grid.pressure, width, height)
                          /\ AllZero(grid.u, width, height)
                          /\ AllZero(grid.v, width, height)
                          /\ \A y \in 0 .. height - 1 : \A x \in 0 .. width - 1 :
                                ~grid.isObstacle[y][x] ]_vars

\* C14 witness: createSimulationGrid(0, 2) returned a grid of two empty rows.
C14_Witness ==
    /\ heapCall.op = "createSimulationGrid"
    /\ heapCall.input.width = 0 /\ heapCall.input.height = 2
    /\ heapCall.error = "" /\ heapCall.result >= 1
    /\ heapGrids[heapCall.result].width = 0
    /\ DOMAIN Deref(heap, heapGrids[heapCall.result]).u = 0 .. 1

\* This step is one call of runSimulationStep in the solver harness.
Stepped == harnessSteps' = harnessSteps + 1

\* The cell a force or target at normalized (x, y) is mapped to.
MappedCell(entry, grid) ==
    << Floor(entry.x * grid.width), Floor(entry.y * grid.height) >>

InsideGrid(cell, grid) ==
    /\ 0 <= cell[1] /\ cell[1] < grid.width
    /\ 0 <= cell[2] /\ cell[2] < grid.height

\* A force that injection has to skip: mapped outside the grid or onto an
\* obstacle cell.
ForceSkipped(force, grid) ==
    LET cell == MappedCell(force, grid)
    IN  ~InsideGrid(cell, grid) \/ grid.isObstacle[cell[2]][cell[1]]

\* The forces of a list that are not skipped, in order.
Applicable(forces, grid) ==
    LET Keep(force) == ~ForceSkipped(force, grid)
    IN  SelectSeq(forces, Keep)

\* C15: a step with a force list gives the grid that the same step gives
\* with the skipped forces (mapped outside the grid, x = 1 or y = 1 included,
\* or onto an obstacle cell) removed from the list: a skipped force changes
\* no cell and does not keep the forces after it from being applied.
C15_SkippedForcesIgnored ==
    [][ Stepped =>
          LET call == harnessCall'
          IN  harnessGrid' = runSimulationStep(harnessGrid,
                                               Applicable(call.forces, harnessGrid),
                                               call.targets, call.config) ]_vars

\* C15 witness: a force at x = 1 came first in the list and the centre force
\* after it was injected.
C15_Witness ==
    /\ harnessSteps = 1
    /\ harnessCall.forces = <<EdgeForce, CenterForce>>
    /\ harnessCall.targets = <<>>
    /\ harnessCall.config = AllOffConfig
    /\ harnessInput.width = 3 /\ ~harnessInput.isObstacle[1][1]
    /\ harnessGrid.u[1][1] = harnessInput.u[1][1] + 3 * CenterForce.fx

\* The sum of component comp (scaled by the dimension dim) over the forces
\* of the list that are mapped to cell.
RECURSIVE ForceSum(_, _, _, _, _)
ForceSum(forces, grid, cell, comp, dim) ==
    IF forces = <<>> THEN 0
    ELSE (IF MappedCell(Head(forces), grid) = cell THEN Head(forces)[comp] * dim ELSE 0)
         + ForceSum(Tail(forces), grid, cell, comp, dim)

Product(a, b) == (a * b) \div SCALE

ZeroState(grid) ==
    /\ AllZero(grid.u, grid.width, grid.height)
    /\ AllZero(grid.v, grid.width, grid.height)
    /\ AllZero(grid.pressure, grid.width, grid.height)
    /\ \A y \in 0 .. grid.height - 1 : \A x \in 0 .. grid.width - 1 :
          ~grid.isObstacle[y][x]

\* C18: a step without forces and without targets applied to the zero state
\* returns the zero state, whatever the config (and so does any number of
\* such steps).
C18_ZeroFixedPoint ==
    [][ (Stepped /\ ZeroState(harnessGrid)
            /\ harnessCall'.forces = <<>> /\ harnessCall'.targets = <<>>) =>
          harnessGrid' = harnessGrid ]_vars

\* C18 witness: two steps under the stiff config from the zero state, still
\* all zero.
C18_Witness ==
    /\ harnessSteps = 2
    /\ harnessCall.forces = <<>> /\ harnessCall.targets = <<>>
    /\ harnessCall.config = StiffConfig
    /\ harnessInput.width = 4
    /\ ZeroState(harnessInput)
    /\ ZeroState(harnessGrid)

\* n successive applications of runSimulationStep to the cells of a grid
\* (none for n <= 0).
RECURSIVE Iterate(_, _, _, _, _)
Iterate(grid, n, forces, targets, config) ==
    IF n <= 0 THEN grid
    ELSE Iterate(runSimulationStep(grid, forces, targets, config), n - 1,
                 forces, targets, config)

\* C19: runSteadyStateSimulation returns the cells that config.iterations
\* successive steps with the same forces, targets and config give (the
\* cells of the input for iterations <= 0), in a grid that has no array in
\* common with the input or any other grid held, and leaves every cell of the
\* grids held as it was.
C19_SteadyStateIsIteratedStep ==
    [][ ReturnedGrid("runSteadyStateSimulation") =>
          LET result == heapGrids'[Len(heapGrids')]
              in == heapCall'.input
          IN  /\ HeldGridsUnchanged
              /\ \A i \in 1 .. Len(heapGrids) : Independent(heap', result, heapGrids[i])
              /\ Deref(heap', result) =
                    Iterate(Deref(heap, heapGrids[heapCall'.arg]), in.config.iterations,
                            in.forces, in.targets, in.config) ]_vars

\* C19 witness: two iterations with forces returned something other than
\* one step or two steps with the forces applied once would have.
C19_Witness ==
    /\ heapCall.op = "runSteadyStateSimulation"
    /\ heapCall.input.config.iterations = 2
    /\ heapCall.input.forces # <<>>
    /\ LET in == heapCall.input
           start == Deref(heap, heapGrids[heapCall.arg])
           once == runSimulationStep(start, in.forces, in.targets, in.config)
           returned == Deref(heap, heapGrids[heapCall.result])
       IN  /\ returned # once
           /\ returned # runSimulationStep(once, <<>>, in.targets, in.config)
           /\ returned = runSimulationStep(once, in.forces, in.targets, in.config)

\* The target list of the props a session captured when it started.
BuiltTargets(s) ==
    convertForceVectorsToTargetVelocities(sessionProps[s].forceVectors,
                                          sessionProps[s].targetWeight)

\* C20: a session's target list is the one built at its start from the
\* force list and weight it captured; every step of the session is
\* runSimulationStep(currentGrid, [], that list) and what it emits is the
\* velocity of that grid; no other step, a later change of the props
\* included, alters the targets of a running session: a change of the props
\* adds one session with targets built from the new props.
C20_TargetsBuiltOnceForcesNeverApplied ==
    [][ /\ \A s \in Sessions :
            /\ Woke(s) =>
                 LET grid == runSimulationStep(currentGrid[s], <<>>, BuiltTargets(s),
                                               DEFAULT_SIMULATION_CONFIG)
                 IN  /\ targetVelocities[s] = BuiltTargets(s)
                     /\ (pc'[s] = "waiting") =>
                            /\ currentGrid'[s] = grid
                            /\ targetVelocities'[s] = targetVelocities[s]
                            /\ sessionProps'[s] = sessionProps[s]
                     /\ (lastEmit' # lastEmit) =>
                            velocityField' = Some([u |-> grid.u, v |-> grid.v])
            /\ (pc[s] = "waiting" /\ ~Woke(s)) =>
                 /\ targetVelocities'[s] = targetVelocities[s]
                 /\ sessionProps'[s] = sessionProps[s]
        /\ (started' # started) =>
             /\ started' = started + 1
             /\ pc'[started'] = "waiting" /\ steps'[started'] = 0
             /\ targetVelocities'[started'] =
                   convertForceVectorsToTargetVelocities(
                       sessionProps'[started'].forceVectors,
                       sessionProps'[started'].targetWeight) ]_vars

\* C20 witness: the props changed while session 1 was in its loop; session 2
\* runs with other targets and has stepped, and session 1, not yet woken
\* again, still holds the targets built from its own force and the moving
\* grid they produced.
C20_Witness ==
    /\ started = 2
    /\ pc[1] = "waiting" /\ pc[2] = "waiting"
    /\ steps[1] >= 2 /\ steps[2] >= 1
    /\ sessionProps[1].forceVectors = <<SkewForce>>
    /\ sessionProps[2].forceVectors = <<>>
    /\ targetVelocities[1] = BuiltTargets(1) /\ targetVelocities[1] # <<>>
    /\ targetVelocities[2] = <<>>
    /\ \E y \in 0 .. currentGrid[1].height - 1 : \E x \in 0 .. currentGrid[1].width - 1 :
          currentGrid[1].u[y][x] # 0

\* The number of pending timers of session s.
PendingTimers(s) == Cardinality({i \in 1 .. Len(timerQueue) : timerQueue[i] = s})

\* C21: a session in its loop is always suspended on exactly one pending
\* timer (also before its first step), and a session that is not in its loop
\* has none; while it is suspended the caller can abort and a dependency
\* change can start another session; the session advances only when its
\* timer fires, by exactly one whole step, and is then suspended on a new
\* timer or has left its loop.
C21_CooperativeLoop ==
    /\ [](\A s \in Sessions :
            /\ PendingTimers(s) = (IF pc[s] = "waiting" THEN 1 ELSE 0)
            /\ (pc[s] = "waiting") =>
                  /\ ENABLED AbortSimulation
                  /\ (started < MaxSessions) =>
                        ENABLED (\E p \in PropChoices :
                                    DepsChangeStart(p.mask, p.forces, p.weight)))
    /\ [][ \A s \in Sessions :
              (steps'[s] # steps[s] /\ s <= started) =>
                 /\ pc[s] = "waiting"
                 /\ \/ pc'[s] = "waiting" /\ steps'[s] = steps[s] + 1
                    \/ pc'[s] = "done" /\ steps'[s] = 0
                 /\ PendingTimers(s) = 1 ]_vars

\* C21 witness: between two steps of session 1 a dependency change started
\* session 2, and between two steps of session 2 the caller aborted it; both
\* are suspended on their timers.
C21_Witness ==
    /\ started = 2
    /\ pc[1] = "waiting" /\ steps[1] >= 1
    /\ pc[2] = "waiting" /\ steps[2] >= 1 /\ aborted[2]
    /\ PendingTimers(1) = 1 /\ PendingTimers(2) = 1

\* C22: until a first session has been started the hook exposes its initial
\* values (velocityField = null, isSimulating = false, convergenceSteps =
\* null, currentStep = 0, currentDelta = null) and nothing is pending, and
\* an effect run that finds obstacleMask null starts no session, sets no
\* timer and leaves isSimulating false if it was.
C22_NoSessionWithoutMask ==
    /\ [](started = 0 =>
            /\ velocityField = NULL /\ ~isSimulating /\ convergenceSteps = NULL
            /\ currentStep = 0 /\ currentDelta = NULL
            /\ timerQueue = <<>>
            /\ \A s \in Sessions : pc[s] = "idle" /\ steps[s] = 0)
    /\ [][ (obstacleMask' = NULL /\ ~(\E s \in Sessions : Woke(s))) =>
              /\ started' = started
              /\ pc' = pc /\ steps' = steps
              /\ (\A s \in Sessions : PendingTimers(s)' = PendingTimers(s))
              /\ (~isSimulating => ~isSimulating') ]_vars

\* C22 witness: the mask became null after a session had run; no further
\* session was started and isSimulating is false.
C22_Witness ==
    /\ obstacleMask = NULL
    /\ started = 1 /\ pc[1] = "done" /\ aborted[1]
    /\ ~isSimulating
    /\ timerQueue = <<>>

\* The absolute differences, cell by cell and for both components, between
\* two velocity fields of the same shape; 0 is the least possible difference.
FieldDiffs(new, old) ==
    {0} \cup
    { Abs(new.u[y][x] - old.u[y][x]) : <<x, y>> \in
        { <<i, j>> \in (0 .. 1) \X (0 .. 1) : j \in DOMAIN new.u /\ i \in DOMAIN new.u[j] } }
        \cup
    { Abs(new.v[y][x] - old.v[y][x]) : <<x, y>> \in
        { <<i, j>> \in (0 .. 1) \X (0 .. 1) : j \in DOMAIN new.v /\ i \in DOMAIN new.v[j] } }

\* C23: hasConverged returns false whenever either field is null, and
\* otherwise returns true exactly when the maximum over all cells of
\* |current.u - previous.u| and |current.v - previous.v| is strictly less than
\* the threshold, which is 0.001 when omitted.
C23_HasConverged ==
    (pureCall.op = "hasConverged" /\ pureResult.done) =>
        LET threshold == IF pureCall.threshold = NULL THEN SCALE \div 1000
                         ELSE pureCall.threshold[1]
        IN  IF pureCall.current = NULL \/ pureCall.previous = NULL
            THEN pureResult.value = FALSE
            ELSE pureResult.value =
                   (Maximum(FieldDiffs(pureCall.current[1], pureCall.previous[1]))
                        < threshold)

\* Two fields that differ by exactly 0.001 in one v component are compared
\* with the default threshold and are not converged.
C23_Witness ==
    /\ pureCall.op = "hasConverged" /\ pureResult.done
    /\ pureCall.threshold = NULL
    /\ pureCall.current # NULL /\ pureCall.previous # NULL
    /\ pureCall.current # pureCall.previous
    /\ Maximum(FieldDiffs(pureCall.current[1], pureCall.previous[1])) = SCALE \div 1000
    /\ pureResult.value = FALSE

\* C24: convertForceVectorsToTargetVelocities is a pure remap: the result has
\* the length and order of forces, entry i has the x, y of force i, u = fx and
\* v = fy unchanged and the given weight (0.1 when omitted), and the input
\* list is as it was.
C24_PureRemap ==
    (pureCall.op = "convertForceVectorsToTargetVelocities" /\ pureResult.done) =>
        /\ Len(pureResult.value) = Len(pureCall.forces)
        /\ \A i \in 1 .. Len(pureCall.forces) :
              /\ pureResult.value[i].x = pureCall.forces[i].x
              /\ pureResult.value[i].y = pureCall.forces[i].y
              /\ pureResult.value[i].u = pureCall.forces[i].fx
              /\ pureResult.value[i].v = pureCall.forces[i].fy
              /\ pureResult.value[i].weight =
                    (IF pureCall.weight = NULL THEN SCALE \div 10
                     ELSE pureCall.weight[1])
        /\ pureResult.forces = pureCall.forces

\* Three forces, the first and the last equal, are converted with the weight
\* omitted.
C24_Witness ==
    /\ pureCall.op = "convertForceVectorsToTargetVelocities" /\ pureResult.done
    /\ pureCall.weight = NULL
    /\ Len(pureCall.forces) = 3
    /\ Len(pureResult.value) = 3
    /\ pureResult.value[2].u # pureResult.value[1].u
    /\ pureResult.value[3].weight = SCALE \div 10

\* C25 as stated: telemetry belongs to the current session: while the most
\* recently started session is in its loop, the exposed currentStep is the
\* number of steps that session has completed (no superseded session writes
\* currentStep or currentDelta after the reset).
C25_TelemetryOfCurrentSession ==
    (started >= 1 /\ pc[started] = "waiting") => currentStep = steps[started]

\* C25, what the code guarantees: a session start resets the telemetry; every
\* wake-up of a session, superseded or not, writes that session's own step
\* count to currentStep; a superseded session does so at most once more, in
\* the wake-up in which it returns; and nothing else writes the telemetry.
C25_StaleTelemetryAtMostOnce ==
    [][ /\ (started' # started) => (currentStep' = 0 /\ currentDelta' = NULL)
        /\ \A s \in Sessions :
              Woke(s) => /\ currentStep' = steps[s] + 1
                         /\ (s # started) => (aborted[s] /\ Ended(s))
        /\ (currentStep' # currentStep \/ currentDelta' # currentDelta) =>
              (started' # started \/ \E s \in Sessions : Woke(s)) ]_vars

\* C25 witness: the second session is in its loop and has completed no step,
\* and the trailing step of the superseded first session has overwritten the
\* reset telemetry with its own step count and delta.
C25_Witness ==
    /\ started = 2
    /\ pc[2] = "waiting" /\ steps[2] = 0 /\ ~aborted[2]
    /\ pc[1] = "done" /\ stepsAfterAbort[1] = 1
    /\ currentStep >= 2
    /\ currentDelta # NULL

\* C26: isSimulating tracks the current session under every interleaving of
\* starts, aborts and wake-ups: it is true whenever the most recently started
\* session has not left its loop, it is false once every started session has
\* left its loop, and a superseded session that returns leaves it as it is.
C26_IsSimulatingTracksCurrent ==
    /\ [](/\ (started >= 1 /\ pc[started] = "waiting") => isSimulating
          /\ (\A s \in Sessions : pc[s] # "waiting") => ~isSimulating)
    /\ [][ \A s \in Sessions :
              (Ended(s) /\ s # started) => isSimulating' = isSimulating ]_vars

\* C26 witness: the aborted first session has returned after the second one
\* started, the second one is still in its loop, and isSimulating is true.
C26_Witness ==
    /\ started = 2
    /\ pc[1] = "done" /\ stepsAfterAbort[1] = 1 /\ outcome[1] = "Aborted"
    /\ pc[2] = "waiting" /\ steps[2] >= 1
    /\ isSimulating

\* C27: a cancelled session never reports convergence: a wake-up of a session
\* whose abort signal is set leaves convergenceSteps as it is, even when the
\* step of that wake-up changed nothing by 0.0001 or more; convergenceSteps
\* changes only when a session starts (to null) or when the most recently
\* started session, not aborted, returns; so a non-null convergenceSteps
\* stems from the most recently started session, which was not aborted when
\* it wrote it.
C27_NoConvergenceReportAfterAbort ==
    /\ [](convergenceSteps # NULL =>
             /\ started >= 1
             /\ pc[started] = "done"
             /\ outcome[started] = "Converged")
    /\ [][ /\ \A s \in Sessions :
                (Woke(s) /\ aborted[s]) => convergenceSteps' = convergenceSteps
           /\ (convergenceSteps' # convergenceSteps) =>
                 \/ started' # started /\ convergenceSteps' = NULL
                 \/ /\ Ended(started) /\ ~aborted[started]
                    /\ StepMaxDiff(started) < CONVERGENCE_THRESHOLD
                    /\ convergenceSteps' = Some(steps[started] + 1) ]_vars

\* C27 witness: the only session was aborted after its first step; its second
\* step changed nothing (delta 0), and it returned without a convergence
\* report.
C27_Witness ==
    /\ started = 1
    /\ pc[1] = "done" /\ outcome[1] = "Aborted" /\ stepsAfterAbort[1] = 1
    /\ currentStep = 2 /\ currentDelta = Some(0)
    /\ convergenceSteps = NULL

\* A target that reaches no interior fluid cell of the grid: it is mapped
\* outside the grid, onto the border or onto an obstacle cell.
QuietTarget(target, grid) ==
    LET cell == MappedCell(target, grid)
    IN  \/ ~InsideGrid(cell, grid)
        \/ OnBorder(grid, cell[1], cell[2])
        \/ grid.isObstacle[cell[2]][cell[1]]

\* Session s has no target that reaches an interior fluid cell (an empty
\* force list included).
Quiet(s) ==
    \A i \in 1 .. Len(targetVelocities[s]) :
        QuietTarget(targetVelocities[s][i], currentGrid[s])

\* The all-zero velocity field of the grid of session s.
ZeroField(s) ==
    [ u |-> [y \in 0 .. currentGrid[s].height - 1 |->
               [x \in 0 .. currentGrid[s].width - 1 |-> 0]],
      v |-> [y \in 0 .. currentGrid[s].height - 1 |->
               [x \in 0 .. currentGrid[s].width - 1 |-> 0]] ]

\* C28: a session that is not cancelled and whose force list is empty, or
\* whose targets all map to border, out-of-range or obstacle cells, converges
\* at exactly step 2 whatever the mask: its first step does not end it and
\* emits the all-zero field, its second step ends it with the field still
\* all-zero, currentDelta = 0 and convergenceSteps = 2.
C28_QuietSessionConvergesAtStepTwo ==
    [][ \A s \in Sessions :
          (Woke(s) /\ ~aborted[s] /\ Quiet(s)) =>
             /\ velocityField' = Some(ZeroField(s))
             /\ IF steps[s] = 0
                THEN /\ ~Ended(s)
                     /\ currentStep' = 1
                     /\ currentDelta' = NULL
                     /\ convergenceSteps' = NULL
                ELSE /\ steps[s] = 1
                     /\ Ended(s)
                     /\ outcome'[s] = "Converged"
                     /\ currentStep' = 2
                     /\ currentDelta' = Some(0)
                     /\ convergenceSteps' = Some(2) ]_vars

\* C28 witness: a session whose forces are all drawn outside the grid or on
\* its border, on a mask with obstacles, has converged at step 2.
C28_Witness ==
    /\ started = 1
    /\ obstacleMask = Some(MaskSquare)
    /\ pc[1] = "done" /\ outcome[1] = "Converged" /\ ~aborted[1]
    /\ convergenceSteps = Some(2) /\ currentStep = 2 /\ currentDelta = Some(0)
    /\ velocityField # NULL
    /\ AllZero(velocityField[1].u, 4, 4) /\ AllZero(velocityField[1].v, 4, 4)

\* The sequence with the elements of seq in reverse order.
Reversed(seq) == [i \in 1 .. Len(seq) |-> seq[Len(seq) + 1 - i]]

\* The interior cells column by column.
ColumnOrder(grid) ==
    IF grid.width < 3 \/ grid.height < 3 THEN <<>>
    ELSE [i \in 1 .. (grid.width - 2) * (grid.height - 2) |->
            << 1 + ((i - 1) \div (grid.height - 2)), 1 + ((i - 1) % (grid.height - 2)) >>]

\* C29: advection is two-pass: the new u and v of every interior non-obstacle
\* cell are the interpolation, at the cell's backtraced position, of the
\* velocity field as it was before the call, so the result is the same in
\* whatever order the cells are visited; border and obstacle cells, pressure
\* and obstacles are left as they were; and with timeStep = 0 the whole
\* velocity field is left as it was.
C29_AdvectionTwoPass ==
    (pureCall.op = "applyAdvection" /\ pureResult.done) =>
        LET in == pureCall.grid
            t == pureCall.timeStep
            out == pureResult.value
            srcX(x, y) == x * SCALE - Mul(in.u[y][x], t)
            srcY(x, y) == y * SCALE - Mul(in.v[y][x], t)
        IN  /\ \A y \in 0 .. in.height - 1 : \A x \in 0 .. in.width - 1 :
                  IF OnBorder(in, x, y) \/ in.isObstacle[y][x]
                  THEN out.u[y][x] = in.u[y][x] /\ out.v[y][x] = in.v[y][x]
                  ELSE /\ out.u[y][x] = bilinearInterpolate(in.u, srcX(x, y), srcY(x, y),
                                                              in.width, in.height)
                       /\ out.v[y][x] = bilinearInterpolate(in.v, srcX(x, y), srcY(x, y),
                                                              in.width, in.height)
            /\ out.pressure = in.pressure /\ out.isObstacle = in.isObstacle
            /\ out.width = in.width /\ out.height = in.height
            /\ \A order \in {LoopOrder(in), Reversed(LoopOrder(in)), ColumnOrder(in)} :
                  out = AdvectInOrder(in, t, order)
            /\ (t = 0) => (out.u = in.u /\ out.v = in.v)

\* C29 witness: on a grid of six interior cells, one of them an obstacle,
\* advection with a positive time step changed two horizontally adjacent
\* fluid cells and left the obstacle cell, which carries velocity, as it was.
C29_Witness ==
    /\ pureCall.op = "applyAdvection" /\ pureResult.done
    /\ pureCall.timeStep > 0
    /\ pureCall.grid.width = 5 /\ pureCall.grid.height = 4
    /\ pureCall.grid.isObstacle[1][2] /\ pureCall.grid.u[1][2] # 0
    /\ pureResult.value.u[1][2] = pureCall.grid.u[1][2]
    /\ pureResult.value.u[2][1] # pureCall.grid.u[2][1]
    /\ pureResult.value.u[2][2] # pureCall.grid.u[2][2]

\* The positions in a target list of the targets mapped to cell <<x, y>>.
Hits(targets, grid, x, y) ==
    { i \in 1 .. Len(targets) : MappedCell(targets[i], grid) = <<x, y>> }

====
